---- MODULE Spec2Model ----
(***************************************************************************)
(* Behaviour orchestration of the desktop pet (src/desktop_pet_doei.py):   *)
(* the pose state machine, the roundtrip walk, the pomodoro countdown, the *)
(* rest reminder and the drag/click handling of class DesktopPet.          *)
(*                                                                         *)
(* Every Qt callback runs to completion on one thread, so every handler is *)
(* one atomic action.  A handler is written as an operator from the pet's  *)
(* fields (a record, Cur) to the fields it leaves behind; the procedures   *)
(* it calls (set_state, _stop_walk, _apply_scale, ...) are operators of    *)
(* the same shape, composed in the order of the calls.                     *)
(***************************************************************************)
EXTENDS Integers, Sequences, FiniteSets, TLC

(***************************************************************************)
(* Program constants.                                                      *)
(***************************************************************************)
\* WALK_SPEED_PX_PER_SEC * (WALK_TICK_MS / 1000.0) = 90 * 0.055 = 4.95 px,
\* kept in hundredths of a pixel
WALK_SPEED_PX_PER_SEC == 90
WALK_TICK_MS == 55
AccUnit == 100
WalkStep == (WALK_SPEED_PX_PER_SEC * WALK_TICK_MS * AccUnit) \div 1000
WALK_BOB_PX == 2
WALK_BOB_PERIOD_MS == 420
drag_threshold == 6
snap_margin == 18
ClickMs == 350
BUBBLE_MIN_W == 160
BUBBLE_MAX_W == 360
BUBBLE_GAP_Y == 18
\* BubbleWidget's paddings and the height of its tail
pad_x == 12
pad_y == 10
tail_h == 10
\* the font metrics of the bubble's labels and buttons, which Qt takes
\* from the platform: pixels per character and per line of the 12 px
\* labels, the height of the 11 px dynamic line and of the button row
CharW == 7
LineH == 16
DynH == 14
BtnH == 30
\* the bits of a limb of a float's significand, and 2^LimbBits
LimbBits == 13
Limb == 8192

(***************************************************************************)
(* Bounds of the model.  The monitor's available rectangle is a Qt QRect   *)
(* (right = left + width - 1, bottom = top + height - 1) and the code      *)
(* keeps the window's x in [left, right - width], y in [top, bottom -      *)
(* height].  The low screen leaves y one value, the tall one several.      *)
(***************************************************************************)
GeoLeft == 2
GeoTop == 1
PetW == 10
PetH == 4
NarrowW == 19
WideW == 125
SnugW == 16
TightW == 15
LowH == 5
TallH == 10
RoomyW == 50
RoomyH == 44
DeskW == 360
DeskH == 132
MaxPomoSec == 2
LivePetW == 12
WheelPetW == 22

\* the size of a top-level QWidget that was never resized
QtDefaultW == 640
QtDefaultH == 480

None == -1000
\* an Optional[QSize] that is None
NoSize == << >>

Poses == {"sit", "laydown", "walk_left", "walk_right"}

VARIABLES
    state,                  \* self.state
    dragging,               \* self._dragging
    locked,                 \* self.locked
    moved,                  \* self._moved
    press_global,           \* self._press_global
    drag_offset,            \* self._drag_offset
    x, y,                   \* self.x(), self.y(): top-left of the window
    visible,                \* self.isVisible()
    walk_dir,               \* self._walk_dir
    walk_step_acc,          \* self._walk_step_acc, in 1/AccUnit px
    walk_base_y,            \* self._walk_base_y (None when unset)
    walk_timer,             \* self._walk_timer.isActive()
    roundtrip_active,       \* self._roundtrip_active
    roundtrip_edge_hits_remaining,
    pomo_running, pomo_mode, pomo_left, pomo_timer,
    pomo_work_sec, pomo_break_sec,
    rest_enabled, rest_timer, rest_snooze_timer, rest_pose_back_timer,
    chatter_enabled, chatter_timer,
    auto_roundtrip_enabled, auto_roundtrip_timer,
    geo,                    \* screen.availableGeometry() (environment)
    width, height,          \* self.width(), self.height()
    scale,                  \* self.scale, a float: [m, e] for m * 2^e
    uniform_base_size,      \* self._uniform_base_size (NoSize when None)
    size_hint,              \* what QLabel.sizeHint() answers (environment)
    single_shots,           \* the pending QTimer.singleShot calls of __init__
    left_down,              \* the left mouse button is held (environment)
    notes,                  \* the notifications the last callback showed
    last,                   \* the last callback, its input, the pose before it
    far_move,               \* a move since the last press was a drag move
    pomo_n,                 \* pomodoro ticks since start (None: forced/stopped)
    walk_y0,                \* y when the walk began (None: none, disturbed)
    walk_n,                 \* ticks since _start_walk (None: as walk_y0)
    walk_sum,               \* pixels moved by these ticks
    bubble                  \* self.bubble: the BubbleWidget's fields

vars == <<state, dragging, locked, moved, press_global, drag_offset, x, y,
          visible, walk_dir, walk_step_acc, walk_base_y, walk_timer,
          roundtrip_active, roundtrip_edge_hits_remaining,
          pomo_running, pomo_mode, pomo_left, pomo_timer,
          pomo_work_sec, pomo_break_sec,
          rest_enabled, rest_timer, rest_snooze_timer, rest_pose_back_timer,
          chatter_enabled, chatter_timer,
          auto_roundtrip_enabled, auto_roundtrip_timer,
          geo, width, height, scale, uniform_base_size, size_hint,
          single_shots, left_down, notes, last, far_move, pomo_n,
          walk_y0, walk_n, walk_sum, bubble>>

\* The pet's fields and its bubble widget as one record; a callback starts
\* with no notification.
Cur ==
    [state |-> state, dragging |-> dragging, locked |-> locked,
     moved |-> moved, press_global |-> press_global,
     drag_offset |-> drag_offset, x |-> x, y |-> y, visible |-> visible,
     walk_dir |-> walk_dir, walk_step_acc |-> walk_step_acc,
     walk_base_y |-> walk_base_y, walk_timer |-> walk_timer,
     roundtrip_active |-> roundtrip_active,
     hits |-> roundtrip_edge_hits_remaining,
     pomo_running |-> pomo_running, pomo_mode |-> pomo_mode,
     pomo_left |-> pomo_left, pomo_timer |-> pomo_timer,
     pomo_work_sec |-> pomo_work_sec, pomo_break_sec |-> pomo_break_sec,
     rest_enabled |-> rest_enabled, rest_timer |-> rest_timer,
     rest_snooze_timer |-> rest_snooze_timer,
     rest_pose_back_timer |-> rest_pose_back_timer,
     chatter_enabled |-> chatter_enabled, chatter_timer |-> chatter_timer,
     auto_roundtrip_enabled |-> auto_roundtrip_enabled,
     auto_roundtrip_timer |-> auto_roundtrip_timer,
     width |-> width, height |-> height, scale |-> scale,
     single_shots |-> single_shots, bubble |-> bubble, notes |-> << >>]

\* the walk's history ends when the pet stops walking, is dragged or is
\* resized: a drag and a resize move the window themselves
Disturbed(r, name) ==
    r.walk_dir = 0 \/ r.dragging \/ name \in {"set_scale", "wheel"}

\* The callback `name` with input `arg` ends with the pet's fields r, the
\* bubble widget among them (a callback reaches it through _notify,
\* _show_pomo_bubble, _sync_bubble_anchor and hide_all).  The
\* walk's history is kept beside them: where the walk began (walk_y0), and
\* the ticks and pixels since _start_walk last ran (walk_n, walk_sum).
Commit(r, name, arg) ==
    /\ state' = r.state
    /\ dragging' = r.dragging
    /\ locked' = r.locked
    /\ moved' = r.moved
    /\ press_global' = r.press_global
    /\ drag_offset' = r.drag_offset
    /\ x' = r.x
    /\ y' = r.y
    /\ visible' = r.visible
    /\ walk_dir' = r.walk_dir
    /\ walk_step_acc' = r.walk_step_acc
    /\ walk_base_y' = r.walk_base_y
    /\ walk_timer' = r.walk_timer
    /\ roundtrip_active' = r.roundtrip_active
    /\ roundtrip_edge_hits_remaining' = r.hits
    /\ pomo_running' = r.pomo_running
    /\ pomo_mode' = r.pomo_mode
    /\ pomo_left' = r.pomo_left
    /\ pomo_timer' = r.pomo_timer
    /\ pomo_work_sec' = r.pomo_work_sec
    /\ pomo_break_sec' = r.pomo_break_sec
    /\ rest_enabled' = r.rest_enabled
    /\ rest_timer' = r.rest_timer
    /\ rest_snooze_timer' = r.rest_snooze_timer
    /\ rest_pose_back_timer' = r.rest_pose_back_timer
    /\ chatter_enabled' = r.chatter_enabled
    /\ chatter_timer' = r.chatter_timer
    /\ auto_roundtrip_enabled' = r.auto_roundtrip_enabled
    /\ auto_roundtrip_timer' = r.auto_roundtrip_timer
    /\ notes' = r.notes
    /\ width' = r.width
    /\ height' = r.height
    /\ scale' = r.scale
    /\ single_shots' = r.single_shots
    /\ bubble' = r.bubble
    /\ UNCHANGED <<geo, uniform_base_size, size_hint>>
    /\ last' = [op |-> name, arg |-> arg, state |-> state,
                active |-> roundtrip_active,
                hits |-> roundtrip_edge_hits_remaining]
    /\ walk_y0' = IF Disturbed(r, name) THEN None
                  ELSE IF walk_dir = 0 THEN y
                  ELSE walk_y0
    /\ walk_n' = IF Disturbed(r, name) THEN None
                 ELSE IF r.walk_dir # walk_dir THEN 0
                 ELSE IF walk_n = None THEN None
                 ELSE IF name = "tick_walk" THEN walk_n + 1
                 ELSE walk_n
    /\ walk_sum' = IF Disturbed(r, name) THEN None
                   ELSE IF r.walk_dir # walk_dir THEN 0
                   ELSE IF walk_sum = None THEN None
                   ELSE IF name = "tick_walk"
                        THEN walk_sum + (IF r.x >= x THEN r.x - x ELSE x - r.x)
                   ELSE walk_sum

Min(a, b) == IF a <= b THEN a ELSE b
Max(a, b) == IF a >= b THEN a ELSE b
Abs(a) == IF a < 0 THEN -a ELSE a

(***************************************************************************)
(* The speech bubble (class BubbleWidget), a window of its own.  Its size  *)
(* is what _layout_to_size computes from the texts the widget holds; the   *)
(* anchor is a point <<x, y>> in screen coordinates.  The buttons are the  *)
(* texts of the QPushButtons of _set_buttons, which adds the close button  *)
(* to every row that has a button.                                         *)
(***************************************************************************)
NoButtons == << >>
RestButtons == <<"Snooze 10 min">>
PomoWorkButtons == <<"Start break", "Snooze 10 min">>
PomoBreakButtons == <<"Back to focus", "Snooze 10 min">>

\* BubbleWidget.__init__, as DesktopPet.__init__ calls it (gap_y =
\* BUBBLE_GAP_Y): hidden, nothing laid out (a window never shown has Qt's
\* default size, 640 x 480), no text, no button, both timers idle.  chars
\* is the length of the message, text the dynamic line; hide_ms is the
\* interval the hide timer was last started with, shown_ms the ms of the
\* most recent show_bubble.
BubbleInit ==
    [anchor |-> <<0, 0>>, w |-> QtDefaultW, h |-> QtDefaultH, x |-> 0, y |-> 0,
     gap_y |-> BUBBLE_GAP_Y,
     visible |-> FALSE, hide_timer |-> FALSE, dynamic_timer |-> FALSE,
     getter |-> FALSE, text |-> "", chars |-> 0, buttons |-> NoButtons,
     hide_ms |-> 0, shown_ms |-> 0]

\* a button with this text can be clicked: it is in the row of the bubble
\* on screen
HasButton(b, name) ==
    b.visible /\ \E i \in DOMAIN b.buttons : b.buttons[i] = name

\* QLabel.sizeHint().width() of a label that holds n characters, read after
\* setFixedWidth(max_content_w)
HintWidth(n, max_content_w) ==
    IF size_hint = "fixed" THEN max_content_w ELSE n * CharW

\* _layout_to_size.  The titles, of 14 characters at most, are narrower than
\* the least content width and take one line; a message wider than the
\* content width wraps.  The dynamic line and the button row are visible
\* (isVisible()) only in a bubble that is on screen itself, so they count
\* only when the bubble was visible before this layout.
LayoutToSize(b) ==
    LET max_content_w == BUBBLE_MAX_W - pad_x * 2
        lay(v) ==
            LET dyn == v.getter /\ v.visible
                w0 == Max(HintWidth(v.chars, max_content_w),
                          BUBBLE_MIN_W - pad_x * 2)
                w1 == IF dyn
                      THEN Max(w0, HintWidth(Len(v.text), max_content_w))
                      ELSE w0
                w == Min(w1, max_content_w)
                msg_lines == (v.chars * CharW + w - 1) \div w
                content_h == LineH + Max(1, msg_lines) * LineH
                             + (IF dyn THEN 4 + DynH ELSE 0)
                             + (IF v.buttons # NoButtons /\ v.visible
                                THEN 6 + BtnH ELSE 0)
            IN  [v EXCEPT !.w = w + pad_x * 2,
                          !.h = content_h + pad_y * 2 + tail_h]
    IN  CHOOSE r \in {lay(v) : v \in {b}} : TRUE

\* _place_near_anchor that clamps the horizontal axis only
PlaceNearAnchor_NoClampY(b) ==
    LET x0 == b.anchor[1] - (b.w \div 2)
        y0 == b.anchor[2] - b.h - b.gap_y
    IN  [b EXCEPT !.x = Max(geo.left, Min(x0, geo.right - b.w)),
                  !.y = y0]

\* _place_near_anchor
PlaceNearAnchor(b) ==
    LET x0 == b.anchor[1] - (b.w \div 2)
        y0 == b.anchor[2] - b.h - b.gap_y
    IN  [b EXCEPT !.x = Max(geo.left, Min(x0, geo.right - b.w)),
                  !.y = Max(geo.top, Min(y0, geo.bottom - b.h))]

\* show_bubble that leaves the hide timer alone when ms is 0
ShowBubble_KeepsHideTimer(b, anchor, chars, ms, buttons, dyn, txt) ==
    LET b1 == [b EXCEPT !.anchor = anchor, !.chars = chars,
                        !.getter = dyn, !.dynamic_timer = dyn,
                        !.text = IF dyn THEN txt ELSE "",
                        !.buttons = buttons]
        place(v) == PlaceNearAnchor(v)
        b2 == CHOOSE r \in {place(v) : v \in {LayoutToSize(b1)}} : TRUE
    IN  [b2 EXCEPT !.visible = TRUE, !.shown_ms = ms,
                   !.hide_timer = IF ms > 0 THEN TRUE ELSE @,
                   !.hide_ms = IF ms > 0 THEN ms ELSE @]

\* show_bubble(title, message, anchor_pos, ms, buttons, dynamic_getter):
\* chars is the length of the message, buttons the texts of the buttons, dyn
\* says that a dynamic_getter is given and txt is what it returns;
\* _hide_timer.start(ms) starts the timer anew with the interval ms
ShowBubble(b, anchor, chars, ms, buttons, dyn, txt) ==
    LET b1 == [b EXCEPT !.anchor = anchor, !.chars = chars,
                        !.getter = dyn, !.dynamic_timer = dyn,
                        !.text = IF dyn THEN txt ELSE "",
                        !.buttons = buttons]
        place(v) == PlaceNearAnchor(v)
        b2 == CHOOSE r \in {place(v) : v \in {LayoutToSize(b1)}} : TRUE
    IN  [b2 EXCEPT !.visible = TRUE, !.shown_ms = ms,
                   !.hide_timer = (ms > 0),
                   !.hide_ms = IF ms > 0 THEN ms ELSE @]

\* update_anchor
UpdateAnchor(b, anchor) ==
    LET b1 == [b EXCEPT !.anchor = anchor]
    IN  IF b1.visible THEN PlaceNearAnchor(b1) ELSE b1

\* set_gap_y
SetGapY(b, gap) ==
    LET b1 == [b EXCEPT !.gap_y = gap]
    IN  IF b1.visible THEN PlaceNearAnchor(b1) ELSE b1

\* _dynamic_tick that gives up polling when the poll fails
DynamicTick_StopsOnFailure(b, ok, txt) ==
    LET place(v) == PlaceNearAnchor(v)
    IN  IF ~b.getter THEN [b EXCEPT !.dynamic_timer = FALSE]
        ELSE IF ~ok THEN [b EXCEPT !.dynamic_timer = FALSE]
        ELSE CHOOSE r \in {place(v) : v \in
                               {LayoutToSize([b EXCEPT !.text = txt])}} : TRUE

\* _dynamic_tick: ok says that the poll of the getter did not raise, txt is
\* what it returned
DynamicTick(b, ok, txt) ==
    LET place(v) == PlaceNearAnchor(v)
    IN  IF ~b.getter THEN [b EXCEPT !.dynamic_timer = FALSE]
        ELSE IF ~ok THEN b
        ELSE CHOOSE r \in {place(v) : v \in
                               {LayoutToSize([b EXCEPT !.text = txt])}} : TRUE

\* _do_close: the close button and the fire of the single-shot _hide_timer
DoClose(b) ==
    [b EXCEPT !.hide_timer = FALSE, !.dynamic_timer = FALSE,
              !.visible = FALSE]

\* QWidget.hide() on the bubble, as hide_all calls it
BubbleHide(b) == [b EXCEPT !.visible = FALSE]

(***************************************************************************)
(* Bubble helpers, position helpers.  The helpers of a callback nest, each *)
(* one reading the fields the one before it left.  A helper f(s) is        *)
(* written CHOOSE r \in {f(v) : v \in {s}} : TRUE, the one element of a    *)
(* set of one, so that s is computed a single time and the evaluation of a *)
(* nest stays linear in its depth.                                         *)
(***************************************************************************)
\* _bubble_anchor_global with BUBBLE_ANCHOR_HEAD: the middle of the window's
\* top edge, in screen coordinates
BubbleAnchorGlobal(s) == <<s.x + (s.width \div 2), s.y>>

\* _sync_bubble_anchor
SyncBubbleAnchor(s) ==
    LET sync(v) == [v EXCEPT !.bubble =
                                 UpdateAnchor(@, BubbleAnchorGlobal(v))]
    IN  CHOOSE r \in {sync(v) : v \in {s}} : TRUE

\* _notify(title, msg, ms, buttons): bubble.show_bubble above the pet's head
\* and the tray message; the notification is recorded by its kind, chars is
\* the length of msg.
Notify(s, kind, ms, buttons, chars) ==
    LET show(v) ==
            [v EXCEPT !.notes = Append(@, kind),
                      !.bubble = ShowBubble(@, BubbleAnchorGlobal(v), chars,
                                            ms, buttons, FALSE, "")]
    IN  CHOOSE r \in {show(v) : v \in {s}} : TRUE

\* _ensure_on_screen
EnsureOnScreen(s) ==
    LET clamp(v) ==
            [v EXCEPT !.x = Min(Max(v.x, geo.left), geo.right - v.width),
                      !.y = Min(Max(v.y, geo.top), geo.bottom - v.height)]
    IN  SyncBubbleAnchor(CHOOSE r \in {clamp(v) : v \in {s}} : TRUE)

\* _snap_to_edges
SnapX(s, px) ==
    LET x1 == IF Abs(px - geo.left) <= snap_margin THEN geo.left ELSE px
    IN  IF Abs((x1 + s.width) - geo.right) <= snap_margin
        THEN geo.right - s.width ELSE x1

SnapY(s, py) ==
    LET y1 == IF Abs(py - geo.top) <= snap_margin THEN geo.top ELSE py
    IN  IF Abs((y1 + s.height) - geo.bottom) <= snap_margin
        THEN geo.bottom - s.height ELSE y1

SnapToEdges(s) ==
    LET snap(v) == [v EXCEPT !.x = SnapX(v, v.x), !.y = SnapY(v, v.y)]
    IN  SyncBubbleAnchor(CHOOSE r \in {snap(v) : v \in {s}} : TRUE)

\* the fire of QTimer.singleShot(180, self._ensure_on_screen)
StartupEnsureOnScreen(s) ==
    EnsureOnScreen([s EXCEPT !.single_shots = @ \ {"ensure_on_screen"}])

\* the fire of QTimer.singleShot(650, self._say_hello): _say_hello, whose
\* message has 16 characters
SayHello(s) ==
    Notify([s EXCEPT !.single_shots = @ \ {"say_hello"}],
           "hello", 3200, NoButtons, 16)

(***************************************************************************)
(* Floats.  self.scale is a Python float, an IEEE 754 double.  A positive  *)
(* double is kept as [m, e] for m * 2^e, the 53-bit significand m written  *)
(* in five limbs of 13 bits, least significant first, so that every        *)
(* partial product fits the integers of the model.  A product is computed  *)
(* exactly on the limbs and rounded once, to nearest, ties to even, as the *)
(* hardware does.  Intermediate results are bound as values (v \in {e}),   *)
(* which keeps TLC from evaluating them again at every use.                *)
(***************************************************************************)
Pow2(k) == 2 ^ k

Digit(p, i) == IF i \in 1..Len(p) THEN p[i] ELSE 0

\* the number of bits of the non-zero natural p
NatBits(p) ==
    LET t == CHOOSE i \in 1..Len(p) :
                 p[i] # 0 /\ \A j \in (i + 1)..Len(p) : p[j] = 0
    IN  LimbBits * (t - 1)
            + (CHOOSE k \in 1..LimbBits : p[t] \div Pow2(k - 1) = 1)

\* p shifted right by s bits
NatShr(p, s) ==
    LET d == s \div LimbBits
        r == s % LimbBits
    IN  [i \in 1..Len(p) |->
            (Digit(p, i + d) \div Pow2(r))
                + (Digit(p, i + d + 1) % Pow2(r)) * Pow2(LimbBits - r)]

\* p shifted left by s bits, in n limbs
NatShl(p, s, n) ==
    LET d == s \div LimbBits
        r == s % LimbBits
    IN  [i \in 1..n |->
            (Digit(p, i - d) % Pow2(LimbBits - r)) * Pow2(r)
                + (Digit(p, i - d - 1) \div Pow2(LimbBits - r))]

\* bit j of p, bit 0 the lowest
NatBit(p, j) == (Digit(p, j \div LimbBits + 1) \div Pow2(j % LimbBits)) % 2

\* the j lowest bits of p are all zero
NatLowZero(p, j) ==
    /\ \A i \in 1..(j \div LimbBits) : Digit(p, i) = 0
    /\ Digit(p, j \div LimbBits + 1) % Pow2(j % LimbBits) = 0

\* p + 1, in the limbs of p
NatInc(p) ==
    LET carry[i \in 0..Len(p)] ==
            IF i = 0 THEN 1 ELSE (p[i] + carry[i - 1]) \div Limb
    IN  [i \in 1..Len(p) |-> (p[i] + carry[i - 1]) % Limb]

\* p < q, for p and q of the same number of limbs
NatLess(p, q) ==
    \E i \in 1..Len(p) :
        p[i] < q[i] /\ \A j \in (i + 1)..Len(p) : p[j] = q[j]

\* the limbs of a natural given by its columns, each the sum of the partial
\* products of one weight: the carries go up from the lowest limb
Carried(col) ==
    LET carry[k \in 0..Len(col)] ==
            IF k = 0 THEN 0 ELSE (col[k] + carry[k - 1]) \div Limb
    IN  [k \in 1..Len(col) |-> (col[k] + carry[k - 1]) % Limb]

\* p * q for p and q of five limbs
NatMul(p, q) ==
    CHOOSE r \in {Carried(col) : col \in {[k \in 1..10 |->
                 p[1] * Digit(q, k) + p[2] * Digit(q, k - 1)
                     + p[3] * Digit(q, k - 2) + p[4] * Digit(q, k - 3)
                     + p[5] * Digit(q, k - 4)]}} : TRUE

\* p * n for p of five limbs and n < Limb
NatTimes(p, n) ==
    CHOOSE r \in {Carried(col) :
                     col \in {[k \in 1..6 |-> n * Digit(p, k)]}} : TRUE

\* the double nearest to p * 2^e for p of 53 + s bits, s > 0: the s low
\* bits are dropped, and the rest goes up by one when they are more than
\* half a unit, or just half and the rest is odd
RoundOff(p, e, s) ==
    LET up(q) == /\ NatBit(p, s - 1) = 1
                 /\ (q[1] % 2 = 1 \/ ~NatLowZero(p, s - 1))
        norm(q) == IF q[5] = 2 THEN [m |-> NatShr(q, 1), e |-> e + s + 1]
                   ELSE [m |-> q, e |-> e + s]
    IN  CHOOSE d \in {norm(q1) :
                 q1 \in {IF up(q) THEN NatInc(q) ELSE q :
                     q \in {SubSeq(NatShr(p, s), 1, 5)}}} : TRUE

\* the double nearest to p * 2^e, ties to even
RoundToDouble(p, e) ==
    CHOOSE d \in {IF s <= 0 THEN [m |-> NatShl(v, -s, 5), e |-> e + s]
                  ELSE RoundOff(v, e, s) :
                      <<v, s>> \in {<<w, NatBits(w) - 53>> : w \in {p}}} : TRUE

\* float(n) for an int n >= 1
DblOfNat(n) == RoundToDouble(<<n>>, 0)

\* a * b
DblMul(a, b) == RoundToDouble(NatMul(a.m, b.m), a.e + b.e)

\* n * a for an int n, 1 <= n < Limb: the int converts exactly
DblTimes(n, a) == RoundToDouble(NatTimes(a.m, n), a.e)

\* a < b
DblLess(a, b) == a.e < b.e \/ (a.e = b.e /\ NatLess(a.m, b.m))

\* int(a) for a < 2^26
DblTrunc(a) ==
    CHOOSE n \in {q[1] + Limb * q[2] :
             q \in {IF d.e >= 0 THEN NatShl(d.m, d.e, 2)
                    ELSE NatShr(d.m, -d.e) : d \in {a}}} : TRUE

(***************************************************************************)
(* Size / scale.  The menu sets self.scale to 0.5, 0.75, 1.0 or 1.25, the  *)
(* wheel multiplies it by 1.1 or by 1 / 1.1, and _apply_scale clamps it to *)
(* [0.3, 2.0] and sizes the window to int(base * scale).  The float        *)
(* literals are written out: 1.1 is 0x1.199999999999ap+0, 1 / 1.1 is       *)
(* 0x1.d1745d1745d17p-1, 0.3 is 0x1.3333333333333p-2.                      *)
(***************************************************************************)
WheelUp == [m |-> <<6554, 3276, 1638, 819, 1>>, e |-> -52]
WheelDown == [m |-> <<7447, 2978, 4468, 6702, 1>>, e |-> -53]
ScaleMin == [m |-> <<4915, 6553, 3276, 1638, 1>>, e |-> -54]
ScaleMax == [m |-> <<0, 0, 0, 0, 1>>, e |-> -51]

\* the float of a scale of the Size menu, given in hundredths: the menu's
\* scales are quarters, which floats hold exactly
FloatOfPct(pct) ==
    CHOOSE r \in {[d EXCEPT !.e = @ - 2] :
                     d \in {DblOfNat(pct \div 25)}} : TRUE

\* max(0.3, min(float(self.scale), 2.0))
ClampScale(sc) ==
    IF DblLess(ScaleMax, sc) THEN ScaleMax
    ELSE IF DblLess(sc, ScaleMin) THEN ScaleMin
    ELSE sc

\* int(base * self.scale) for 1 <= base < Limb; the product by a power of
\* two is exact
Scaled(base, sc) ==
    IF sc.m = ScaleMax.m
    THEN IF sc.e >= -52 THEN base * Pow2(sc.e + 52)
         ELSE base \div Pow2(-52 - sc.e)
    ELSE DblTrunc(DblTimes(base, sc))

\* _apply_scale
ApplyScale(s) ==
    IF uniform_base_size = NoSize THEN s
    ELSE LET resize(v) ==
                 CHOOSE r \in {[v EXCEPT
                                   !.scale = sc,
                                   !.width = Scaled(uniform_base_size[1], sc),
                                   !.height =
                                       Scaled(uniform_base_size[2], sc)] :
                               sc \in {ClampScale(v.scale)}} : TRUE
             s1 == CHOOSE r \in {resize(v) : v \in {s}} : TRUE
         IN  SyncBubbleAnchor(EnsureOnScreen(s1))

\* _set_scale(s): the Size menu
SetScale(s, pct) == ApplyScale([s EXCEPT !.scale = FloatOfPct(pct)])

\* wheelEvent: up says that event.angleDelta().y() > 0
WheelEvent(s, up) ==
    IF uniform_base_size = NoSize THEN s
    ELSE ApplyScale([s EXCEPT !.scale =
                        DblMul(@, IF up THEN WheelUp ELSE WheelDown)])

(***************************************************************************)
(* Walking kinematics on/off.                                              *)
(***************************************************************************)
\* _start_walk
StartWalk(s, dir) ==
    [s EXCEPT !.walk_dir = IF dir < 0 THEN -1 ELSE 1,
              !.walk_step_acc = 0,
              !.walk_base_y = s.y,
              !.walk_timer = TRUE]

\* _stop_walk that leaves the walk timer running
StopWalk_KeepsTimer(s) ==
    SyncBubbleAnchor(
        [s EXCEPT !.walk_dir = 0,
                  !.walk_step_acc = 0,
                  !.y = IF s.walk_base_y # None THEN s.walk_base_y ELSE s.y,
                  !.walk_base_y = None])

\* _stop_walk
StopWalk(s) ==
    SyncBubbleAnchor(
        [s EXCEPT !.walk_dir = 0,
                  !.walk_step_acc = 0,
                  !.walk_timer = FALSE,
                  !.y = IF s.walk_base_y # None THEN s.walk_base_y ELSE s.y,
                  !.walk_base_y = None])

\* set_state that also ends the roundtrip when the pose stops walking
SetState_EndsRoundtrip(s, pose) ==
    IF pose \notin Poses THEN s
    ELSE LET s1 == [s EXCEPT !.state = pose]
             s2 == IF pose = "walk_left" THEN StartWalk(s1, -1)
                   ELSE IF pose = "walk_right" THEN StartWalk(s1, 1)
                   ELSE StopWalk([s1 EXCEPT !.roundtrip_active = FALSE,
                                            !.hits = 0])
         IN  ApplyScale(s2)

\* set_state(state, say=False): every pose of Poses has a movie
SetState(s, pose) ==
    IF pose \notin Poses THEN s
    ELSE LET s1 == [s EXCEPT !.state = pose]
             s2 == IF pose = "walk_left" THEN StartWalk(s1, -1)
                   ELSE IF pose = "walk_right" THEN StartWalk(s1, 1)
                   ELSE StopWalk(s1)
         IN  ApplyScale(s2)

\* set_state(state, say=True, title, text): title and text are non-empty
SetStateSay(s, pose, kind, chars) ==
    IF pose \notin Poses THEN s
    ELSE Notify(SetState(s, pose), kind, 2400, NoButtons, chars)

(***************************************************************************)
(* Roundtrip walking.                                                      *)
(***************************************************************************)
\* start_roundtrip that forgets the drag guard
StartRoundtrip_NoDragGuard(s, start_dir, pick, announce) ==
    IF s.state = "laydown" THEN s
    ELSE IF s.pomo_running THEN s
    ELSE IF s.state \in {"walk_left", "walk_right"} THEN s
    ELSE LET d == IF start_dir = None THEN pick ELSE start_dir
             s1 == [s EXCEPT !.roundtrip_active = TRUE, !.hits = 2]
             s2 == SetState(s1, IF d < 0 THEN "walk_left" ELSE "walk_right")
         IN  IF announce THEN Notify(s2, "walk", 2600, NoButtons, 35) ELSE s2

\* start_roundtrip that forgets the already-walking guard
StartRoundtrip_NoWalkGuard(s, start_dir, pick, announce) ==
    IF s.dragging THEN s
    ELSE IF s.state = "laydown" THEN s
    ELSE IF s.pomo_running THEN s
    ELSE LET d == IF start_dir = None THEN pick ELSE start_dir
             s1 == [s EXCEPT !.roundtrip_active = TRUE, !.hits = 2]
             s2 == SetState(s1, IF d < 0 THEN "walk_left" ELSE "walk_right")
         IN  IF announce THEN Notify(s2, "walk", 2600, NoButtons, 35) ELSE s2

\* start_roundtrip that walks left whatever the direction
StartRoundtrip_AlwaysLeft(s, start_dir, pick, announce) ==
    IF s.dragging THEN s
    ELSE IF s.state = "laydown" THEN s
    ELSE IF s.pomo_running THEN s
    ELSE IF s.state \in {"walk_left", "walk_right"} THEN s
    ELSE LET s1 == [s EXCEPT !.roundtrip_active = TRUE, !.hits = 2]
             s2 == SetState(s1, "walk_left")
         IN  IF announce THEN Notify(s2, "walk", 2600, NoButtons, 35) ELSE s2

\* start_roundtrip(start_dir, announce); pick is what random.choice([-1, +1])
\* returns when start_dir is None
StartRoundtrip(s, start_dir, pick, announce) ==
    IF s.dragging THEN s
    ELSE IF s.state = "laydown" THEN s
    ELSE IF s.pomo_running THEN s
    ELSE IF s.state \in {"walk_left", "walk_right"} THEN s
    ELSE LET d == IF start_dir = None THEN pick ELSE start_dir
             s1 == [s EXCEPT !.roundtrip_active = TRUE, !.hits = 2]
             s2 == SetState(s1, IF d < 0 THEN "walk_left" ELSE "walk_right")
         IN  IF announce THEN Notify(s2, "walk", 2600, NoButtons, 35) ELSE s2

\* _finish_roundtrip
FinishRoundtrip(s) ==
    LET s1 == [s EXCEPT !.roundtrip_active = FALSE, !.hits = 0]
    IN  Notify(SetState(StopWalk(s1), "sit"), "walk_finished", 2200,
               NoButtons, 16)

\* _auto_roundtrip_fire that forgets the drag guard
AutoRoundtripFire_NoDragGuard(s, pick) ==
    IF (~s.auto_roundtrip_enabled) \/ s.pomo_running THEN s
    ELSE IF s.state \in {"laydown", "walk_left", "walk_right"} THEN s
    ELSE LET s1 == StartRoundtrip(s, None, pick, FALSE)
         IN  IF s1.roundtrip_active
             THEN Notify(s1, "auto_walk", 2400, NoButtons, 32) ELSE s1

\* _auto_roundtrip_fire
AutoRoundtripFire(s, pick) ==
    IF (~s.auto_roundtrip_enabled) \/ s.dragging \/ s.pomo_running THEN s
    ELSE IF s.state \in {"laydown", "walk_left", "walk_right"} THEN s
    ELSE LET s1 == StartRoundtrip(s, None, pick, FALSE)
         IN  IF s1.roundtrip_active
             THEN Notify(s1, "auto_walk", 2400, NoButtons, 32) ELSE s1

(***************************************************************************)
(* Walking movement tick.                                                  *)
(***************************************************************************)
\* int(round(math.sin(2*pi*(t % WALK_BOB_PERIOD_MS)/WALK_BOB_PERIOD_MS)
\*           * WALK_BOB_PX)) for WALK_BOB_PX = 2, WALK_BOB_PERIOD_MS = 420:
\* the milliseconds at which the rounded sine changes value
BobOffset(t) ==
    LET u == t % WALK_BOB_PERIOD_MS
    IN  IF u <= 16 THEN 0
        ELSE IF u <= 56 THEN 1
        ELSE IF u <= 153 THEN 2
        ELSE IF u <= 193 THEN 1
        ELSE IF u <= 226 THEN 0
        ELSE IF u <= 266 THEN -1
        ELSE IF u <= 363 THEN -2
        ELSE IF u <= 403 THEN -1
        ELSE 0

\* the edge check that reverses without counting the edge
EdgeCheck_NoDecrement(s, hit_edge) ==
    IF hit_edge /\ s.roundtrip_active
    THEN IF s.hits <= 0 THEN FinishRoundtrip(s)
         ELSE LET s2 == [s EXCEPT !.walk_dir = -(@)]
              IN  IF s2.walk_dir < 0 THEN SetState(s2, "walk_left")
                  ELSE SetState(s2, "walk_right")
    ELSE s

\* the edge check that ends the roundtrip one edge late
EdgeCheck_FinishesLate(s, hit_edge) ==
    IF hit_edge /\ s.roundtrip_active
    THEN LET s1 == [s EXCEPT !.hits = @ - 1]
         IN  IF s1.hits < 0 THEN FinishRoundtrip(s1)
             ELSE LET s2 == [s1 EXCEPT !.walk_dir = -(@)]
                  IN  IF s2.walk_dir < 0 THEN SetState(s2, "walk_left")
                      ELSE SetState(s2, "walk_right")
    ELSE s

\* the edge check at the end of _tick_walk, after the window was moved
EdgeCheck(s, hit_edge) ==
    IF hit_edge /\ s.roundtrip_active
    THEN LET s1 == [s EXCEPT !.hits = @ - 1]
         IN  IF s1.hits <= 0 THEN FinishRoundtrip(s1)
             ELSE LET s2 == [s1 EXCEPT !.walk_dir = -(@)]
                  IN  IF s2.walk_dir < 0 THEN SetState(s2, "walk_left")
                      ELSE SetState(s2, "walk_right")
    ELSE s

\* _tick_walk that keeps walking during a drag
TickWalk_NoDragGuard(s, t) ==
    IF s.walk_dir = 0 THEN s
    ELSE LET acc1 == s.walk_step_acc + WalkStep
             adx == acc1 \div AccUnit
             dx == adx * s.walk_dir
             min_x == geo.left
             max_x == geo.right - s.width
             new_x == s.x + dx
             bob_y == IF s.walk_base_y # None
                      THEN s.walk_base_y + BobOffset(t) ELSE s.y
             new_y == Max(geo.top, Min(bob_y, geo.bottom - s.height))
             hit_edge == new_x <= min_x \/ new_x >= max_x
             cl_x == IF new_x <= min_x THEN min_x
                     ELSE IF new_x >= max_x THEN max_x ELSE new_x
             s1 == SyncBubbleAnchor(
                     [s EXCEPT !.walk_step_acc = acc1 - adx * AccUnit,
                               !.x = cl_x, !.y = new_y])
         IN  EdgeCheck(s1, hit_edge)

\* _tick_walk that drops the fraction left over after a step
TickWalk_DropsFraction(s, t) ==
    IF s.walk_dir = 0 \/ s.dragging THEN s
    ELSE LET acc1 == s.walk_step_acc + WalkStep
             adx == acc1 \div AccUnit
             dx == adx * s.walk_dir
             min_x == geo.left
             max_x == geo.right - s.width
             new_x == s.x + dx
             bob_y == IF s.walk_base_y # None
                      THEN s.walk_base_y + BobOffset(t) ELSE s.y
             new_y == Max(geo.top, Min(bob_y, geo.bottom - s.height))
             hit_edge == new_x <= min_x \/ new_x >= max_x
             cl_x == IF new_x <= min_x THEN min_x
                     ELSE IF new_x >= max_x THEN max_x ELSE new_x
             s1 == SyncBubbleAnchor(
                       [s EXCEPT !.walk_step_acc = 0,
                                 !.x = cl_x, !.y = new_y])
         IN  EdgeCheck(s1, hit_edge)

\* _tick_walk that forgets to clamp Y
TickWalk_NoClampY(s, t) ==
    IF s.walk_dir = 0 \/ s.dragging THEN s
    ELSE LET acc1 == s.walk_step_acc + WalkStep
             adx == acc1 \div AccUnit
             dx == adx * s.walk_dir
             min_x == geo.left
             max_x == geo.right - s.width
             new_x == s.x + dx
             new_y == IF s.walk_base_y # None
                      THEN s.walk_base_y + BobOffset(t) ELSE s.y
             hit_edge == new_x <= min_x \/ new_x >= max_x
             cl_x == IF new_x <= min_x THEN min_x
                     ELSE IF new_x >= max_x THEN max_x ELSE new_x
             s1 == SyncBubbleAnchor(
                     [s EXCEPT !.walk_step_acc = acc1 - adx * AccUnit,
                               !.x = cl_x, !.y = new_y])
         IN  EdgeCheck(s1, hit_edge)

\* _tick_walk; t is self._walk_elapsed.elapsed() in ms
TickWalk(s, t) ==
    IF s.walk_dir = 0 \/ s.dragging THEN s
    ELSE LET acc1 == s.walk_step_acc + WalkStep
             adx == acc1 \div AccUnit
         IN  IF adx <= 0 THEN [s EXCEPT !.walk_step_acc = acc1]
             ELSE LET dx == adx * s.walk_dir
                      min_x == geo.left
                      max_x == geo.right - s.width
                      new_x == s.x + dx
                      bob_y == IF WALK_BOB_PX > 0 /\ s.walk_base_y # None
                                  /\ WALK_BOB_PERIOD_MS > 0
                               THEN s.walk_base_y + BobOffset(t)
                               ELSE s.y
                      new_y == Max(geo.top, Min(bob_y, geo.bottom - s.height))
                      hit_edge == new_x <= min_x \/ new_x >= max_x
                      cl_x == IF new_x <= min_x THEN min_x
                              ELSE IF new_x >= max_x THEN max_x
                              ELSE new_x
                      s1 == SyncBubbleAnchor(
                              [s EXCEPT !.walk_step_acc = acc1 - adx * AccUnit,
                                        !.x = cl_x, !.y = new_y])
                  IN  CHOOSE r \in {EdgeCheck(v, hit_edge) : v \in {s1}}
                          : TRUE

(***************************************************************************)
(* Pomodoro.                                                               *)
(***************************************************************************)
\* _fmt_mmss
FmtMmss(sec) ==
    LET n == Max(0, sec)
        two(v) == IF v < 10 THEN "0" \o ToString(v) ELSE ToString(v)
    IN  two(n \div 60) \o ":" \o two(n % 60)

\* _pomo_countdown_line
PomoCountdownLine(s) ==
    IF ~s.pomo_running THEN ""
    ELSE (IF s.pomo_mode = "work" THEN "Focus" ELSE "Break")
             \o ": " \o FmtMmss(s.pomo_left) \o " remaining"

\* _show_pomo_bubble: a persistent bubble with two buttons and the countdown
\* as its dynamic line, shown by bubble.show_bubble itself; the messages
\* have 52 (work) and 40 (break) characters
ShowPomoBubble(s) ==
    IF ~s.pomo_running THEN s
    ELSE LET show(v, line) ==
                 IF v.pomo_mode = "work"
                 THEN [v EXCEPT !.notes = Append(@, "pomo_bubble_work"),
                                !.bubble = ShowBubble(
                                    @, BubbleAnchorGlobal(v), 52, 0,
                                    PomoWorkButtons, TRUE, line)]
                 ELSE [v EXCEPT !.notes = Append(@, "pomo_bubble_break"),
                                !.bubble = ShowBubble(
                                    @, BubbleAnchorGlobal(v), 40, 0,
                                    PomoBreakButtons, TRUE, line)]
         IN  CHOOSE r \in {show(v, line) :
                               v \in {s}, line \in {PomoCountdownLine(s)}}
                 : TRUE

\* the fire of the bubble's _dynamic_timer on the pomodoro bubble, the one
\* bubble the pet shows with a dynamic_getter: _dynamic_tick polls
\* _pomo_countdown_line, which does not raise
PollCountdown(s) ==
    LET poll(v) == [v EXCEPT !.bubble =
                                 DynamicTick(@, TRUE, PomoCountdownLine(v))]
    IN  CHOOSE r \in {poll(v) : v \in {s}} : TRUE

\* start_pomodoro that starts over when it is already running
StartPomodoro_Restarts(s) ==
    LET s1 == [s EXCEPT !.pomo_running = TRUE, !.pomo_mode = "work",
                        !.pomo_left = s.pomo_work_sec]
        s2 == [SetState(s1, "sit") EXCEPT !.pomo_timer = TRUE]
    IN  ShowPomoBubble(s2)

\* start_pomodoro
StartPomodoro(s) ==
    IF s.pomo_running THEN Notify(s, "pomo_already", 1800, NoButtons, 16)
    ELSE LET s1 == [s EXCEPT !.pomo_running = TRUE, !.pomo_mode = "work",
                             !.pomo_left = s.pomo_work_sec]
             s2 == [SetState(s1, "sit") EXCEPT !.pomo_timer = TRUE]
         IN  ShowPomoBubble(s2)

\* stop_pomodoro that leaves the 1-second tick running
StopPomodoro_KeepsTimer(s) ==
    Notify([s EXCEPT !.pomo_running = FALSE], "pomo_stopped", 2000,
           NoButtons, 8)

\* stop_pomodoro
StopPomodoro(s) ==
    Notify([s EXCEPT !.pomo_timer = FALSE, !.pomo_running = FALSE],
           "pomo_stopped", 2000, NoButtons, 8)

\* _pomo_force_break
PomoForceBreak(s) ==
    IF ~s.pomo_running THEN Notify(s, "pomo_start_first", 1800, NoButtons, 15)
    ELSE LET s1 == [s EXCEPT !.pomo_mode = "break",
                             !.pomo_left = s.pomo_break_sec]
         IN  ShowPomoBubble(Notify(SetState(s1, "laydown"), "break_now",
                                   1800, NoButtons, 19))

\* _pomo_force_work
PomoForceWork(s) ==
    IF ~s.pomo_running THEN Notify(s, "pomo_start_first", 1800, NoButtons, 15)
    ELSE LET s1 == [s EXCEPT !.pomo_mode = "work",
                             !.pomo_left = s.pomo_work_sec]
         IN  ShowPomoBubble(Notify(SetState(s1, "sit"), "back_to_work",
                                   1800, NoButtons, 13))

\* _tick_pomo that flips one tick late
TickPomo_OneLate(s) ==
    LET s1 == [s EXCEPT !.pomo_left = @ - 1]
        s3 == IF s1.pomo_left < 0
              THEN IF s1.pomo_mode = "work"
                   THEN LET s2 == [s1 EXCEPT !.pomo_mode = "break",
                                             !.pomo_left = s.pomo_break_sec]
                        IN  ShowPomoBubble(
                                Notify(SetState(s2, "laydown"),
                                       "times_up_break", 2600, NoButtons, 33))
                   ELSE LET s2 == [s1 EXCEPT !.pomo_mode = "work",
                                             !.pomo_left = s.pomo_work_sec]
                        IN  ShowPomoBubble(
                                Notify(SetState(s2, "sit"),
                                       "times_up_work", 2600, NoButtons, 26))
              ELSE s1
    IN  SyncBubbleAnchor(s3)

\* _tick_pomo
TickPomo(s) ==
    LET s1 == [s EXCEPT !.pomo_left = @ - 1]
        s3 == IF s1.pomo_left <= 0
              THEN IF s1.pomo_mode = "work"
                   THEN LET s2 == [s1 EXCEPT !.pomo_mode = "break",
                                             !.pomo_left = s.pomo_break_sec]
                        IN  ShowPomoBubble(
                                Notify(SetState(s2, "laydown"),
                                       "times_up_break", 2600, NoButtons, 33))
                   ELSE LET s2 == [s1 EXCEPT !.pomo_mode = "work",
                                             !.pomo_left = s.pomo_work_sec]
                        IN  ShowPomoBubble(
                                Notify(SetState(s2, "sit"),
                                       "times_up_work", 2600, NoButtons, 26))
              ELSE s1
    IN  SyncBubbleAnchor(s3)

(***************************************************************************)
(* Rest reminder and snooze.                                               *)
(***************************************************************************)
\* _apply_rest_state that leaves a running rest timer running
ApplyRestState_KeepsTimer(s) ==
    [s EXCEPT !.rest_snooze_timer = FALSE,
              !.rest_timer = IF s.rest_enabled THEN TRUE ELSE @]

\* _apply_rest_state
ApplyRestState(s) ==
    [s EXCEPT !.rest_snooze_timer = FALSE, !.rest_timer = s.rest_enabled]

\* toggle_rest_reminder
ToggleRestReminder(s) ==
    Notify(ApplyRestState([s EXCEPT !.rest_enabled = ~@]),
           "rest_toggle", 2200, NoButtons, IF ~s.rest_enabled THEN 6 ELSE 7)

\* snooze_rest that leaves the periodic rest timer running
SnoozeRest_KeepsRestTimer(s, minutes) ==
    IF minutes <= 0 THEN s
    ELSE Notify([s EXCEPT !.rest_snooze_timer = TRUE],
                "snoozed", 2400, NoButtons, 30 + Len(ToString(minutes)))

\* snooze_rest(minutes)
SnoozeRest(s, minutes) ==
    IF minutes <= 0 THEN s
    ELSE Notify([s EXCEPT !.rest_timer = FALSE, !.rest_snooze_timer = TRUE],
                "snoozed", 2400, NoButtons, 30 + Len(ToString(minutes)))

\* _resume_rest_after_snooze that restarts the reminder whatever the flag is
ResumeRestAfterSnooze_Always(s) ==
    [s EXCEPT !.rest_snooze_timer = FALSE, !.rest_timer = TRUE]

\* _resume_rest_after_snooze: the fire of the single-shot snooze timer
ResumeRestAfterSnooze(s) ==
    LET s1 == [s EXCEPT !.rest_snooze_timer = FALSE]
    IN  IF s1.rest_enabled THEN [s1 EXCEPT !.rest_timer = TRUE] ELSE s1

\* _rest_ping that leaves the roundtrip alone
RestPing_KeepsRoundtrip(s, tip) ==
    LET s2 == [SetState(s, "laydown") EXCEPT !.rest_pose_back_timer = TRUE]
    IN  Notify(s2, "rest_time", 0, RestButtons, tip)

\* _rest_ping; tip is the length of random.choice(tips)
RestPing(s, tip) ==
    LET s1 == [s EXCEPT !.roundtrip_active = FALSE, !.hits = 0]
        s2 == [SetState(s1, "laydown") EXCEPT !.rest_pose_back_timer = TRUE]
    IN  Notify(s2, "rest_time", 0, RestButtons, tip)

\* the fire of the single-shot _rest_pose_back_timer: set_state("sit")
RestPoseBack(s) ==
    SetState([s EXCEPT !.rest_pose_back_timer = FALSE], "sit")

(***************************************************************************)
(* Toggles, show/hide, chatter.                                            *)
(***************************************************************************)
\* toggle_auto_roundtrip with _apply_auto_roundtrip_state
ToggleAutoRoundtrip(s) ==
    LET e == ~s.auto_roundtrip_enabled
    IN  Notify([s EXCEPT !.auto_roundtrip_enabled = e,
                         !.auto_roundtrip_timer = e],
               "auto_walk_toggle", 2200, NoButtons, IF e THEN 6 ELSE 7)

\* toggle_chatter with _apply_chatter_state
ToggleChatter(s) ==
    LET e == ~s.chatter_enabled
    IN  Notify([s EXCEPT !.chatter_enabled = e, !.chatter_timer = e],
               "chatter_toggle", 2200, NoButtons, IF e THEN 6 ELSE 7)

\* _chatter_once that re-arms only after a lucky roll
ChatterOnce_RearmOnRoll(s, roll, line) ==
    LET s0 == [s EXCEPT !.chatter_timer = FALSE]
        s1 == IF s0.chatter_enabled /\ s0.visible /\ ~s0.dragging /\ roll
              THEN Notify(s0, "keep_going", 2600, NoButtons, line) ELSE s0
    IN  IF s1.chatter_enabled /\ roll
        THEN [s1 EXCEPT !.chatter_timer = TRUE] ELSE s1

\* _chatter_once: the fire of the single-shot chatter timer; roll is
\* random.random() < 0.6, line the length of
\* random.choice(self._encourage_lines())
ChatterOnce(s, roll, line) ==
    LET s0 == [s EXCEPT !.chatter_timer = FALSE]
        s1 == IF s0.chatter_enabled /\ s0.visible /\ ~s0.dragging /\ roll
              THEN Notify(s0, "keep_going", 2600, NoButtons, line) ELSE s0
    IN  IF s1.chatter_enabled THEN [s1 EXCEPT !.chatter_timer = TRUE] ELSE s1

\* toggle_lock
ToggleLock(s) ==
    Notify([s EXCEPT !.locked = ~@], "lock", 2400, NoButtons,
           IF ~s.locked THEN 25 ELSE 32)

\* show_normal
ShowNormal(s) == [s EXCEPT !.visible = TRUE]

\* hide_all: the pet's window and, by QWidget.hide(), the bubble
HideAll(s) == [s EXCEPT !.visible = FALSE, !.bubble = BubbleHide(@)]

(***************************************************************************)
(* Mouse interaction.  Points are <<x, y>>.                                *)
(***************************************************************************)
ManhattanLength(p, q) == Abs(p[1] - q[1]) + Abs(p[2] - q[2])

\* mousePressEvent that begins a drag on the locked pet too
MousePress_IgnoresLock(s, button, gp) ==
    IF button = "left"
    THEN [s EXCEPT !.moved = FALSE,
                   !.dragging = TRUE,
                   !.press_global = gp,
                   !.drag_offset = <<gp[1] - s.x, gp[2] - s.y>>]
    ELSE s

\* mousePressEvent; gp is event.globalPosition()
MousePress(s, button, gp) ==
    IF button = "left"
    THEN LET s1 == [s EXCEPT !.moved = FALSE]
         IN  IF s1.locked THEN [s1 EXCEPT !.dragging = FALSE]
             ELSE [s1 EXCEPT !.dragging = TRUE,
                             !.press_global = gp,
                             !.drag_offset = <<gp[1] - s.x, gp[2] - s.y>>]
    ELSE s

\* mouseMoveEvent that recomputes the moved flag on every move
MouseMove_ResetsMoved(s, gp) ==
    IF s.dragging
    THEN SyncBubbleAnchor(
             [s EXCEPT !.moved = ManhattanLength(gp, s.press_global)
                                     > drag_threshold,
                       !.x = gp[1] - s.drag_offset[1],
                       !.y = gp[2] - s.drag_offset[2]])
    ELSE s

\* mouseMoveEvent
MouseMove(s, gp) ==
    IF s.dragging
    THEN SyncBubbleAnchor(
             [s EXCEPT !.moved = IF ManhattanLength(gp, s.press_global)
                                      > drag_threshold THEN TRUE ELSE @,
                       !.x = gp[1] - s.drag_offset[1],
                       !.y = gp[2] - s.drag_offset[2]])
    ELSE s

\* mouseReleaseEvent that snaps without clamping first
MouseRelease_NoClamp(s, button, elapsed, line) ==
    IF button = "left"
    THEN LET is_click == elapsed < ClickMs
         IN  IF s.dragging
             THEN LET s1 == SnapToEdges([s EXCEPT !.dragging = FALSE])
                  IN  IF (~s1.moved) /\ is_click
                      THEN Notify(s1, "click_focus", 2400, NoButtons, line)
                      ELSE s1
             ELSE IF s.locked /\ is_click
                  THEN Notify(s, "locked_hint", 2200, NoButtons, 22)
             ELSE s
    ELSE s

\* mouseReleaseEvent; elapsed is self._click_timer.elapsed() in ms, line
\* the length of random.choice(self._encourage_lines())
MouseRelease(s, button, elapsed, line) ==
    IF button = "left"
    THEN LET is_click == elapsed < ClickMs
         IN  IF s.dragging
             THEN LET s1 == SnapToEdges(EnsureOnScreen(
                                [s EXCEPT !.dragging = FALSE]))
                  IN  IF (~s1.moved) /\ is_click
                      THEN Notify(s1, "click_focus", 2400, NoButtons, line)
                      ELSE s1
             ELSE IF s.locked /\ is_click
                  THEN Notify(s, "locked_hint", 2200, NoButtons, 22)
             ELSE s
    ELSE s

\* mouseDoubleClickEvent
MouseDoubleClick(s, button) ==
    IF button = "left"
    THEN IF s.state = "sit" THEN SetStateSay(s, "laydown", "break", 37)
         ELSE SetStateSay(s, "sit", "focus", 27)
    ELSE s

(***************************************************************************)
(* Inputs of the callbacks.                                                *)
(***************************************************************************)
\* the monitor's available rectangle
Screen(w, h) == [left |-> GeoLeft, top |-> GeoTop,
                 right |-> GeoLeft + w - 1, bottom |-> GeoTop + h - 1]
LowScreen == Screen(NarrowW, LowH)
TallScreen == Screen(NarrowW, TallH)
WideScreen == Screen(WideW, LowH)
SnugScreen == Screen(SnugW, LowH)
SnugTallScreen == Screen(SnugW, TallH)
TightScreen == Screen(TightW, LowH)
RoomyScreen == Screen(RoomyW, RoomyH)
\* a screen as large as the largest bubble
DeskScreen == Screen(DeskW, DeskH)
\* positions read back by _restore_position ((80, 80) when nothing is stored)
StoredPos == {<<80, 80>>, <<7, 3>>}
\* where in the window the pointer is pressed
PressOffset == <<2, 1>>
\* pointer positions of move events: far from the window, and relative to
\* the press point
FarPoints == {<<-30, -30>>}
NearMoves == {<<0, 0>>, <<3, 3>>, <<4, 3>>, <<-7, 0>>, <<0, -6>>}
NearPoints == {<<press_global[1] + d[1], press_global[2] + d[2]>> :
                  d \in NearMoves}
\* where a drag leaves the window: far before, just outside, at the end of,
\* inside and on the far side of the snap zone of every edge, and between
DropOffsets == {-30, -19, -18, -1, 0, 1, 18, 19}
DropXs == {geo.left + d : d \in DropOffsets}
              \cup {(geo.right - width) - d : d \in DropOffsets}
DropYs == {geo.top + d : d \in DropOffsets}
              \cup {(geo.bottom - height) - d : d \in DropOffsets}
DropPoints == {<<px + PressOffset[1], py + PressOffset[2]>> :
                  px \in DropXs, py \in DropYs}
\* self._click_timer.elapsed() at a release
ClickTimes == {0, 349, 350, 351}
\* self._walk_elapsed.elapsed() at a walk tick
BobTimes == {0, 105, 315}
StartDirs == {None, -1, 1}
SnoozeMinutes == {-5, 0, 10}
\* the lengths of the shortest and the longest line of _encourage_lines,
\* and of a one-line tip of _rest_ping and of the longest, which wraps
EncourageLens == {26, 43}
TipLens == {38, 51}
\* one line and one tip, for the specifications that are about something
\* other than the text
OneLine == {26}
OneTip == {38}
Buttons == {"left", "right"}
\* the scales of the Size menu, in hundredths
ScalePcts == {50, 75, 100, 125}
\* anchors of the bubble on the desk screen: left of, on and right of the
\* screen, above it, on it and so far below it that the bubble needs no
\* vertical clamping; the fifth is the anchor whose centred bubble, of
\* the least width and any height, ends on the last column and the last
\* row of the screen
Anchors ==
    {<<GeoLeft - 3, GeoTop - 2>>,
     <<GeoLeft, GeoTop>>,
     <<GeoLeft + 80, GeoTop + 62 + BUBBLE_GAP_Y>>,
     <<GeoLeft + 180, GeoTop + 100 + BUBBLE_GAP_Y>>,
     <<GeoLeft + DeskW - BUBBLE_MIN_W \div 2, GeoTop + DeskH + BUBBLE_GAP_Y>>,
     <<GeoLeft + DeskW - 3, GeoTop + DeskH - 1 + BUBBLE_GAP_Y>>,
     <<GeoLeft + DeskW - 1, GeoTop + 5>>,
     <<GeoLeft + DeskW + 2, GeoTop - 2>>,
     <<GeoLeft + DeskW + 2, GeoTop + DeskH + 2 + BUBBLE_GAP_Y>>}
\* the gaps set_gap_y is called with: none, the program's, a wider one
GapYs == {0, BUBBLE_GAP_Y, 40}
\* the lengths of the messages of a show: a short notice and the
\* pomodoro's message, which wraps
MessageLens == {16, 52}
\* the buttons of a show
ButtonRows == {NoButtons, PomoWorkButtons}
\* the ms of a show: persistent (the pomodoro bubble), transient
ShowMs == {0, 2600, 3200}
\* what the dynamic getter returns: a short line and one wider than a short
\* notice
DynTexts == {"b", "Focus: 24:59 remaining"}
\* the messages of the two Lay Down entries: the tray's, the context menu's
LayDownLens == {37, 24}
OneLayDown == {37}
\* two scales of the Size menu, for the walk that is resized on its way
LiveScalePcts == {50, 100}
\* the flags the settings hold at the start
FlagsOff == [chatter |-> FALSE, rest |-> FALSE, auto |-> FALSE]
FlagsOn == [chatter |-> TRUE, rest |-> TRUE, auto |-> TRUE]
\* the single-shots of __init__: both pending, both fired
Pending == {"ensure_on_screen", "say_hello"}
Settled == {}

(***************************************************************************)
(* The state after DesktopPet.__init__ and pet.show(): the settings hold   *)
(* the flags and the position, _apply_chatter_state, _apply_rest_state and *)
(* _apply_auto_roundtrip_state have armed the timers of the enabled        *)
(* behaviours, set_state("sit") has sized the window and clamped it onto   *)
(* the screen, and the two single-shots are pending (Pending).  Settled is *)
(* the pet a few seconds later, left alone: _ensure_on_screen and          *)
(* _say_hello have fired and the greeting has hidden itself.  The pomodoro *)
(* durations (25 and 5 minutes in the source) are scaled down to a few     *)
(* seconds.  _load_movies leaves the base size unset when no GIF gives a   *)
(* frame size; _apply_scale then returns at once, and the window keeps the *)
(* size Qt gives a top-level widget and, until _ensure_on_screen fires,    *)
(* the stored position.                                                    *)
(***************************************************************************)
InitPetSized(screen, secs, locks, bases, flags, shots, hints) ==
    /\ geo = screen
    /\ size_hint \in hints
    /\ uniform_base_size \in bases
    /\ single_shots \in shots
    /\ scale = FloatOfPct(100)
    /\ width = IF uniform_base_size = NoSize THEN QtDefaultW
               ELSE Scaled(uniform_base_size[1], scale)
    /\ height = IF uniform_base_size = NoSize THEN QtDefaultH
                ELSE Scaled(uniform_base_size[2], scale)
    /\ state = "sit"
    /\ dragging = FALSE
    /\ locked \in locks
    /\ moved = FALSE
    /\ press_global = <<0, 0>>
    /\ drag_offset = <<0, 0>>
    /\ \E p \in StoredPos :
          LET clamped == uniform_base_size # NoSize
                             \/ "ensure_on_screen" \notin single_shots
          IN  /\ x = IF clamped
                     THEN Min(Max(p[1], screen.left), screen.right - width)
                     ELSE p[1]
              /\ y = IF clamped
                     THEN Min(Max(p[2], screen.top), screen.bottom - height)
                     ELSE p[2]
    /\ visible = TRUE
    /\ walk_dir = 0
    /\ walk_step_acc = 0
    /\ walk_base_y = None
    /\ walk_timer = FALSE
    /\ roundtrip_active = FALSE
    /\ roundtrip_edge_hits_remaining = 0
    /\ pomo_running = FALSE
    /\ pomo_mode = "work"
    /\ pomo_left = 0
    /\ pomo_timer = FALSE
    /\ pomo_work_sec \in secs
    /\ pomo_break_sec \in secs
    /\ \E f \in flags :
          /\ rest_enabled = f.rest
          /\ rest_timer = f.rest
          /\ chatter_enabled = f.chatter
          /\ chatter_timer = f.chatter
          /\ auto_roundtrip_enabled = f.auto
          /\ auto_roundtrip_timer = f.auto
    /\ rest_snooze_timer = FALSE
    /\ rest_pose_back_timer = FALSE
    /\ left_down = FALSE
    /\ notes = << >>
    /\ last = [op |-> "init", arg |-> 0, state |-> "sit", active |-> FALSE,
               hits |-> 0]
    /\ far_move = FALSE
    /\ pomo_n = None
    /\ walk_y0 = None
    /\ walk_n = None
    /\ walk_sum = None
    /\ bubble = LET b0 == [BubbleInit EXCEPT
                               !.anchor = <<x + (width \div 2), y>>]
                IN  IF "say_hello" \in single_shots THEN b0
                    ELSE DoClose(ShowBubble(b0, b0.anchor, 16, 3200,
                                            NoButtons, FALSE, ""))

\* the GIFs give the frame size PetW x PetH; the pet has settled, and
\* QLabel.sizeHint() answers the fixed width
InitPet(screen, secs, locks, flags) ==
    InitPetSized(screen, secs, locks, {<<PetW, PetH>>}, {flags}, {Settled},
                 {"fixed"})

(***************************************************************************)
(* Menu and tray commands.                                                 *)
(***************************************************************************)
CmdSit(lines) ==
    /\ \E line \in lines :
          Commit(SetStateSay(Cur, "sit", "focus", line), "cmd_sit", 0)
    /\ UNCHANGED <<left_down, far_move, pomo_n>>

\* the tray's "Lay Down (Break)" and the context menu's "Take a short
\* break"; n is the length of the entry's message
CmdLayDown(lens) ==
    /\ \E n \in lens :
          Commit(SetStateSay(Cur, "laydown", "break", n), "cmd_laydown", 0)
    /\ UNCHANGED <<left_down, far_move, pomo_n>>

CmdWalkRoundtrip ==
    /\ \E sd \in StartDirs, pick \in {-1, 1} :
          Commit(StartRoundtrip(Cur, sd, pick, TRUE), "start_roundtrip",
                 IF sd = None THEN pick ELSE sd)
    /\ UNCHANGED <<left_down, far_move, pomo_n>>

CmdStartPomodoro ==
    /\ Commit(StartPomodoro(Cur), "start_pomodoro", 0)
    /\ pomo_n' = IF pomo_running THEN pomo_n ELSE 0
    /\ UNCHANGED <<left_down, far_move>>

CmdStopPomodoro ==
    /\ Commit(StopPomodoro(Cur), "stop_pomodoro", 0)
    /\ pomo_n' = None
    /\ UNCHANGED <<left_down, far_move>>

\* a click on "Start break" in the pomodoro bubble
CmdPomoForceBreak ==
    /\ HasButton(bubble, "Start break")
    /\ Commit(PomoForceBreak(Cur), "pomo_force_break", 0)
    /\ pomo_n' = None
    /\ UNCHANGED <<left_down, far_move>>

\* a click on "Back to focus" in the pomodoro bubble
CmdPomoForceWork ==
    /\ HasButton(bubble, "Back to focus")
    /\ Commit(PomoForceWork(Cur), "pomo_force_work", 0)
    /\ pomo_n' = None
    /\ UNCHANGED <<left_down, far_move>>

\* _pomo_force_break and _pomo_force_work run as slots whatever the bubble
\* shows: the methods check pomo_running themselves
CallPomoForceBreak ==
    /\ Commit(PomoForceBreak(Cur), "pomo_force_break", 0)
    /\ pomo_n' = None
    /\ UNCHANGED <<left_down, far_move>>

CallPomoForceWork ==
    /\ Commit(PomoForceWork(Cur), "pomo_force_work", 0)
    /\ pomo_n' = None
    /\ UNCHANGED <<left_down, far_move>>

CmdSnoozeRest ==
    /\ \E m \in SnoozeMinutes : Commit(SnoozeRest(Cur, m), "snooze_rest", m)
    /\ UNCHANGED <<left_down, far_move, pomo_n>>

CmdToggleRestReminder ==
    /\ Commit(ToggleRestReminder(Cur), "toggle_rest_reminder", 0)
    /\ UNCHANGED <<left_down, far_move, pomo_n>>

CmdToggleAutoRoundtrip ==
    /\ Commit(ToggleAutoRoundtrip(Cur), "toggle_auto_roundtrip", 0)
    /\ UNCHANGED <<left_down, far_move, pomo_n>>

CmdToggleChatter ==
    /\ Commit(ToggleChatter(Cur), "toggle_chatter", 0)
    /\ UNCHANGED <<left_down, far_move, pomo_n>>

CmdToggleLock ==
    /\ Commit(ToggleLock(Cur), "toggle_lock", 0)
    /\ UNCHANGED <<left_down, far_move, pomo_n>>

\* the Size menu: Small, Medium, Normal, Large
CmdSetScale(pcts) ==
    /\ \E pct \in pcts : Commit(SetScale(Cur, pct), "set_scale", pct)
    /\ UNCHANGED <<left_down, far_move, pomo_n>>

\* the context menu's "Motivate me"
CmdMotivate(lines) ==
    /\ \E line \in lines :
          Commit(Notify(Cur, "keep_going", 2400, NoButtons, line),
                 "motivate", 0)
    /\ UNCHANGED <<left_down, far_move, pomo_n>>

CmdShow ==
    /\ Commit(ShowNormal(Cur), "show_normal", 0)
    /\ UNCHANGED <<left_down, far_move, pomo_n>>

CmdHide ==
    /\ Commit(HideAll(Cur), "hide_all", 0)
    /\ UNCHANGED <<left_down, far_move, pomo_n>>

(***************************************************************************)
(* Timer fires: a timer fires only while it is active.  The single-shot of *)
(* 180 ms fires before the one of 650 ms.                                  *)
(***************************************************************************)
OnStartupEnsureOnScreen ==
    /\ "ensure_on_screen" \in single_shots
    /\ Commit(StartupEnsureOnScreen(Cur), "ensure_on_screen", 0)
    /\ UNCHANGED <<left_down, far_move, pomo_n>>

OnSayHello ==
    /\ "say_hello" \in single_shots
    /\ "ensure_on_screen" \notin single_shots
    /\ Commit(SayHello(Cur), "say_hello", 0)
    /\ UNCHANGED <<left_down, far_move, pomo_n>>

\* the bubble's _dynamic_timer on the bubble the pet has shown
OnDynamicTick ==
    /\ bubble.dynamic_timer
    /\ Commit(PollCountdown(Cur), "dynamic_tick", 1)
    /\ UNCHANGED <<left_down, far_move, pomo_n>>

OnTickPomo ==
    /\ pomo_timer
    /\ Commit(TickPomo(Cur), "tick_pomo", 0)
    /\ pomo_n' = IF pomo_n = None THEN None
                 ELSE (pomo_n + 1) % (pomo_work_sec + pomo_break_sec)
    /\ UNCHANGED <<left_down, far_move>>

OnRestPing(tips) ==
    /\ rest_timer
    /\ \E tip \in tips : Commit(RestPing(Cur, tip), "rest_ping", 0)
    /\ UNCHANGED <<left_down, far_move, pomo_n>>

OnResumeRestAfterSnooze ==
    /\ rest_snooze_timer
    /\ Commit(ResumeRestAfterSnooze(Cur), "resume_rest_after_snooze", 0)
    /\ UNCHANGED <<left_down, far_move, pomo_n>>

OnRestPoseBack ==
    /\ rest_pose_back_timer
    /\ Commit(RestPoseBack(Cur), "rest_pose_back", 0)
    /\ UNCHANGED <<left_down, far_move, pomo_n>>

OnChatter(lines) ==
    /\ chatter_timer
    /\ \E roll \in BOOLEAN, line \in lines :
          Commit(ChatterOnce(Cur, roll, line), "chatter_once",
                 IF roll THEN 1 ELSE 0)
    /\ UNCHANGED <<left_down, far_move, pomo_n>>

\* _chatter_once run as a slot whatever its timer's state: the callback
\* checks chatter_enabled itself
CallChatterOnce(lines) ==
    /\ \E roll \in BOOLEAN, line \in lines :
          Commit(ChatterOnce(Cur, roll, line), "chatter_once",
                 IF roll THEN 1 ELSE 0)
    /\ UNCHANGED <<left_down, far_move, pomo_n>>

OnAutoRoundtrip ==
    /\ auto_roundtrip_timer
    /\ \E pick \in {-1, 1} :
          Commit(AutoRoundtripFire(Cur, pick), "auto_roundtrip_fire", pick)
    /\ UNCHANGED <<left_down, far_move, pomo_n>>

OnTickWalk(times) ==
    /\ walk_timer
    /\ \E t \in times :
          \E c \in {Cur} :
              \E r \in {TickWalk(c, t)} : Commit(r, "tick_walk", t)
    /\ UNCHANGED <<left_down, far_move, pomo_n>>

(***************************************************************************)
(* Pointer events on the visible window.  A left press is followed by      *)
(* moves and one left release; a double click is delivered in place of a   *)
(* second press and is followed by its own release.                        *)
(***************************************************************************)
OnMousePress(buttons) ==
    /\ visible
    /\ \E b \in buttons :
          /\ b = "left" => ~left_down
          /\ Commit(MousePress(Cur, b,
                               <<x + PressOffset[1], y + PressOffset[2]>>),
                    "mouse_press", IF b = "left" THEN 1 ELSE 2)
          /\ left_down' = IF b = "left" THEN TRUE ELSE left_down
          /\ far_move' = IF b = "left" THEN FALSE ELSE far_move
    /\ UNCHANGED pomo_n

OnMouseMove(points) ==
    /\ left_down
    /\ \E gp \in points :
          /\ Commit(MouseMove(Cur, gp), "mouse_move", 0)
          /\ far_move' = (far_move \/
                          ManhattanLength(gp, press_global) > drag_threshold)
    /\ UNCHANGED <<left_down, pomo_n>>

OnMouseRelease(buttons, times, lines) ==
    /\ \E b \in buttons, e \in times, line \in lines :
          /\ b = "left" => left_down
          /\ \E c \in {Cur} :
                \E r \in {MouseRelease(c, b, e, line)} :
                    Commit(r, "mouse_release", IF b = "left" THEN e ELSE -1)
          /\ left_down' = IF b = "left" THEN FALSE ELSE left_down
    /\ UNCHANGED <<far_move, pomo_n>>

\* wheelEvent over the visible window
OnWheel ==
    /\ visible
    /\ \E up \in BOOLEAN :
          Commit(WheelEvent(Cur, up), "wheel", IF up THEN 1 ELSE -1)
    /\ UNCHANGED <<left_down, far_move, pomo_n>>

OnMouseDoubleClick(buttons) ==
    /\ visible
    /\ ~left_down
    /\ \E b \in buttons :
          /\ Commit(MouseDoubleClick(Cur, b), "mouse_double_click",
                    IF b = "left" THEN 1 ELSE 2)
          /\ left_down' = IF b = "left" THEN TRUE ELSE left_down
    /\ UNCHANGED <<far_move, pomo_n>>

(***************************************************************************)
(* The bubble's own callbacks.  The pet's callbacks call show_bubble and   *)
(* update_anchor with the anchor above its head (Notify, ShowPomoBubble,   *)
(* SyncBubbleAnchor).  BubbleShow and BubbleUpdateAnchor are the same      *)
(* methods called with any anchor of Anchors, message, buttons and getter, *)
(* for what the widget does by itself; the auto-hide, the close button and *)
(* the dynamic poll are callbacks of the widget's own timers and button.   *)
(* A specification whose callbacks can arm one of the two timers has the   *)
(* timer's fire among its steps (SpecDrop arms neither: its releases end   *)
(* drags and notify nothing); the buttons and set_gap_y are inputs, which  *)
(* a specification has or leaves to another.                               *)
(***************************************************************************)
\* everything but the bubble, the notifications and the last callback
petside == <<state, dragging, locked, moved, press_global, drag_offset, x, y,
             visible, walk_dir, walk_step_acc, walk_base_y, walk_timer,
             roundtrip_active, roundtrip_edge_hits_remaining,
             pomo_running, pomo_mode, pomo_left, pomo_timer,
             pomo_work_sec, pomo_break_sec,
             rest_enabled, rest_timer, rest_snooze_timer,
             rest_pose_back_timer, chatter_enabled, chatter_timer,
             auto_roundtrip_enabled, auto_roundtrip_timer,
             geo, width, height, scale, uniform_base_size, size_hint,
             single_shots, left_down, far_move, pomo_n,
             walk_y0, walk_n, walk_sum>>

\* The bubble's callback `name` ends with the bubble's fields b.
CommitBubble(b, name, arg) ==
    /\ bubble' = b
    /\ notes' = << >>
    /\ last' = [op |-> name, arg |-> arg, state |-> state,
                active |-> roundtrip_active,
                hits |-> roundtrip_edge_hits_remaining]
    /\ UNCHANGED petside

BubbleShow(anchors, lens, mss, rows, texts) ==
    \E a \in anchors, n \in lens, ms \in mss, row \in rows, dyn \in BOOLEAN :
        \E txt \in IF dyn THEN texts ELSE {""} :
            CommitBubble(ShowBubble(bubble, a, n, ms, row, dyn, txt),
                         "show_bubble", ms)

BubbleUpdateAnchor(anchors) ==
    \E a \in anchors :
        CommitBubble(UpdateAnchor(bubble, a), "update_anchor", 0)

\* set_gap_y, which nothing in the program calls: a caller that holds the
\* widget
BubbleSetGapY(gaps) ==
    \E gap \in gaps :
        CommitBubble(SetGapY(bubble, gap), "set_gap_y", gap)

BubbleDynamicTick(texts) ==
    /\ bubble.dynamic_timer
    /\ \E ok \in BOOLEAN, txt \in texts :
          CommitBubble(DynamicTick(bubble, ok, txt), "dynamic_tick",
                       IF ok THEN 1 ELSE 0)

BubbleHideTimeout ==
    /\ bubble.hide_timer
    /\ CommitBubble(DoClose(bubble), "hide_timeout", 0)

\* a click on the close button, which _set_buttons puts at the end of a row
\* of buttons
BubbleCloseButton ==
    /\ bubble.visible
    /\ bubble.buttons # NoButtons
    /\ CommitBubble(DoClose(bubble), "close_button", 0)

(***************************************************************************)
(* Pose orchestration: the commands and timer fires that change the pose   *)
(* or the roundtrip, and the drag, on the tight screen, with the fires of  *)
(* the bubble's timers that their notifications arm.  Chatter is off in    *)
(* the settings.                                                           *)
(***************************************************************************)
Init ==
    InitPet(TightScreen, {1}, {FALSE}, [FlagsOn EXCEPT !.chatter = FALSE])

Next ==
    \/ CmdSit(OneLine)
    \/ CmdLayDown(OneLayDown)
    \/ CmdWalkRoundtrip
    \/ CmdStartPomodoro
    \/ CmdStopPomodoro
    \/ OnTickPomo
    \/ OnRestPing(OneTip)
    \/ OnRestPoseBack
    \/ OnAutoRoundtrip
    \/ OnTickWalk({0})
    \/ OnMousePress({"left"})
    \/ OnMouseMove(FarPoints)
    \/ OnMouseRelease({"left"}, {0}, OneLine)
    \/ OnDynamicTick
    \/ BubbleHideTimeout

Spec == Init /\ [][Next]_vars

(***************************************************************************)
(* Properties of the pose orchestration (Spec).                            *)
(***************************************************************************)
Walking == state \in {"walk_left", "walk_right"}

\* the pet's own fields and its bubble: everything but the record of the
\* last callback
petvars == <<state, dragging, locked, moved, press_global, drag_offset, x, y,
             visible, walk_dir, walk_step_acc, walk_base_y, walk_timer,
             roundtrip_active, roundtrip_edge_hits_remaining,
             pomo_running, pomo_mode, pomo_left, pomo_timer,
             pomo_work_sec, pomo_break_sec,
             rest_enabled, rest_timer, rest_snooze_timer,
             rest_pose_back_timer, chatter_enabled, chatter_timer,
             auto_roundtrip_enabled, auto_roundtrip_timer,
             geo, width, height, scale, uniform_base_size, bubble>>

\* C1: in every reachable state, if the roundtrip is active then the pose is
\* WalkingLeft or WalkingRight.
C1_ActiveImpliesWalking == roundtrip_active => Walking

\* C2: a rest-reminder fire while a roundtrip is active leaves the roundtrip
\* inactive with edgeHitsRemaining = 0, the pose LyingDown and the walking
\* kinematics stopped (direction 0, accumulator 0, no baseline, walk timer
\* stopped), within that one callback, whatever dragging and the pomodoro are.
C2_RestPreempts ==
    (last.op = "rest_ping" /\ last.active) =>
        /\ ~roundtrip_active
        /\ roundtrip_edge_hits_remaining = 0
        /\ state = "laydown"
        /\ walk_dir = 0
        /\ walk_step_acc = 0
        /\ walk_base_y = None
        /\ ~walk_timer

\* a rest reminder has just fired in the middle of a walk, during a drag
C2_Witness ==
    /\ last.op = "rest_ping"
    /\ last.active
    /\ last.state = "walk_left"
    /\ last.hits = 1
    /\ dragging

\* C3 as claimed: at most one of drag in progress, roundtrip active and
\* pomodoro running holds in any reachable state.
C3_AtMostOne ==
    /\ ~(dragging /\ roundtrip_active)
    /\ ~(dragging /\ pomo_running)
    /\ ~(roundtrip_active /\ pomo_running)

\* C3 as amended: a roundtrip becomes active only in a step taken with no drag
\* in progress and the pomodoro not running, and the pose is never a walking
\* pose while the pomodoro is running.
C3_StartsExclusive ==
    /\ [](pomo_running => ~Walking)
    /\ [][(~roundtrip_active /\ roundtrip_active') =>
              (~dragging /\ ~pomo_running /\ ~dragging' /\ ~pomo_running')]_vars

\* a roundtrip has just started from a state without one
C3_Witness ==
    /\ last.op \in {"start_roundtrip", "auto_roundtrip_fire"}
    /\ ~last.active
    /\ roundtrip_active
    /\ Walking

\* C5: start_roundtrip(d) called when its guard holds (not dragging, pomodoro
\* not running, pose Sitting) returns with pose WalkingLeft if d < 0 and
\* WalkingRight if d > 0, the roundtrip active, edgeHitsRemaining = 2 and the
\* walk direction equal to d.
C5_StartRoundtrip ==
    (/\ last.op = "start_roundtrip"
     /\ last.state = "sit"
     /\ ~dragging
     /\ ~pomo_running) =>
        /\ state = (IF last.arg < 0 THEN "walk_left" ELSE "walk_right")
        /\ roundtrip_active
        /\ roundtrip_edge_hits_remaining = 2
        /\ walk_dir = last.arg

\* start_roundtrip(+1) has just run from Sitting
C5_Witness ==
    /\ last.op = "start_roundtrip"
    /\ last.state = "sit"
    /\ last.arg = 1
    /\ ~dragging
    /\ ~pomo_running
    /\ state = "walk_right"

\* C6: a manual roundtrip command issued while dragging, while the pose is
\* LyingDown, while the pomodoro is running or while the pose is already a
\* walking pose leaves pose, roundtrip flag, edgeHitsRemaining, walk direction
\* and window position unchanged.
C6_RejectedRoundtrip ==
    [][(/\ last'.op = "start_roundtrip"
        /\ (dragging \/ state = "laydown" \/ pomo_running \/ Walking)) =>
            UNCHANGED <<state, roundtrip_active, roundtrip_edge_hits_remaining,
                        walk_dir, x, y>>]_vars

\* the command has just been rejected in the middle of a roundtrip
C6_Witness ==
    /\ last.op = "start_roundtrip"
    /\ last.state = "walk_right"
    /\ last.hits = 1
    /\ state = "walk_right"
    /\ roundtrip_edge_hits_remaining = 1

\* C7: an auto-roundtrip timer fire starts a roundtrip only when auto-roundtrip
\* is enabled, no drag is in progress, the pomodoro is not running and the
\* pose is Sitting; otherwise it changes no state and shows no notification.
C7_AutoRoundtripGuard ==
    [][last'.op = "auto_roundtrip_fire" =>
        IF auto_roundtrip_enabled /\ ~dragging /\ ~pomo_running
           /\ state = "sit"
        THEN /\ roundtrip_active'
             /\ roundtrip_edge_hits_remaining' = 2
             /\ state' \in {"walk_left", "walk_right"}
             /\ notes' = <<"auto_walk">>
        ELSE /\ UNCHANGED petvars
             /\ notes' = << >>]_vars

\* the timer has just fired during a drag, with the roundtrip flag still set
C7_Witness ==
    /\ last.op = "auto_roundtrip_fire"
    /\ dragging
    /\ state = "sit"
    /\ roundtrip_active
    /\ notes = << >>

(***************************************************************************)
(* Walking: the roundtrip and its ticks on a tall screen, with drags, Sit  *)
(* commands and the auto-hide of their notifications in between.  Every    *)
(* flag is off in the settings.                                            *)
(***************************************************************************)
InitWalk ==
    InitPet(SnugTallScreen, {1}, {FALSE}, FlagsOff)

NextWalk ==
    \/ CmdSit(OneLine)
    \/ CmdWalkRoundtrip
    \/ OnTickWalk(BobTimes)
    \/ OnMousePress({"left"})
    \/ OnMouseMove(FarPoints)
    \/ OnMouseRelease({"left"}, {0}, OneLine)
    \/ BubbleHideTimeout

SpecWalk == InitWalk /\ [][NextWalk]_vars

AtEdgeX(px) == px = geo.left \/ px = geo.right - width
InRect(px, py) ==
    /\ geo.left <= px /\ px <= geo.right - width
    /\ geo.top <= py /\ py <= geo.bottom - height
Opposite(pose) == IF pose = "walk_left" THEN "walk_right" ELSE "walk_left"

\* C4: during an active roundtrip, the walk tick on which the window first
\* reaches a horizontal edge takes edgeHitsRemaining from 2 to 1, reverses the
\* walk direction and switches to the opposite walking pose; the tick on which
\* it next reaches an edge sets edgeHitsRemaining = 0, active = false and
\* pose = Sitting with the kinematics stopped.
C4_EdgeHits ==
    [][(/\ last'.op = "tick_walk"
        /\ roundtrip_active /\ Walking /\ ~dragging
        /\ AtEdgeX(x')) =>
           /\ roundtrip_edge_hits_remaining \in {1, 2}
           /\ roundtrip_edge_hits_remaining = 2 =>
                 /\ roundtrip_edge_hits_remaining' = 1
                 /\ roundtrip_active'
                 /\ walk_dir' = -walk_dir
                 /\ state' = Opposite(state)
           /\ roundtrip_edge_hits_remaining = 1 =>
                 /\ roundtrip_edge_hits_remaining' = 0
                 /\ ~roundtrip_active'
                 /\ state' = "sit"
                 /\ walk_dir' = 0
                 /\ walk_step_acc' = 0
                 /\ walk_base_y' = None
                 /\ ~walk_timer']_vars

\* the second edge has just been reached: the roundtrip is over at the edge
C4_Witness ==
    /\ last.op = "tick_walk"
    /\ last.active
    /\ last.hits = 1
    /\ last.state = "walk_right"
    /\ state = "sit"
    /\ x = geo.right - width

\* C8: every walk tick that starts with the window inside the monitor's
\* available rectangle leaves its X in [left, right - width] and its Y in
\* [top, bottom - height], also when it applies the vertical bob.
C8_TickStaysOnScreen ==
    [][(last'.op = "tick_walk" /\ InRect(x, y)) => InRect(x', y')]_vars

\* a tick between the edges has just clamped the bobbing window to the top
C8_Witness ==
    /\ last.op = "tick_walk"
    /\ Walking
    /\ walk_base_y # None
    /\ ~AtEdgeX(x)
    /\ walk_base_y + BobOffset(last.arg) < geo.top
    /\ y = geo.top

(***************************************************************************)
(* Click or drag: the pointer events and the lock.                         *)
(***************************************************************************)
InitClick == InitPet(LowScreen, {1}, {FALSE}, FlagsOff)

NextClick ==
    \/ CmdToggleLock
    \/ OnMousePress(Buttons)
    \/ OnMouseMove(NearPoints \cup FarPoints)
    \/ OnMouseRelease(Buttons, ClickTimes, EncourageLens)
    \/ OnMouseDoubleClick(Buttons)
    \/ BubbleHideTimeout

SpecClick == InitClick /\ [][NextClick]_vars

\* C9: the left release that ends a press-release sequence begun on the
\* unlocked pet (a drag is in progress) shows the click notification if and
\* only if no move event of the sequence was farther than the drag threshold
\* from the press point and the press-to-release time is under 350 ms; a move
\* beyond the threshold rules the click out whatever later moves do.
C9_ClickOrDrag ==
    [][(last'.op = "mouse_release" /\ last'.arg >= 0 /\ dragging) =>
          /\ notes' \in {<< >>, <<"click_focus">>}
          /\ (notes' = <<"click_focus">>) <=>
                 (~far_move /\ last'.arg < ClickMs)]_vars

\* a release after 349 ms of a press whose moves stayed within the threshold
\* and shifted the window: a click
C9_Witness ==
    /\ last.op = "mouse_release"
    /\ last.arg = 349
    /\ moved = FALSE
    /\ ~far_move
    /\ press_global # <<x + drag_offset[1], y + drag_offset[2]>>
    /\ notes = <<"click_focus">>

(***************************************************************************)
(* Pomodoro: the countdown with work and break durations of 1 to           *)
(* MaxPomoSec seconds, among the commands and timers that set the pose.    *)
(***************************************************************************)
InitPomo ==
    InitPet(LowScreen, 1..MaxPomoSec, {FALSE},
            [FlagsOff EXCEPT !.rest = TRUE])

NextPomo ==
    \/ CmdStartPomodoro
    \/ CmdStopPomodoro
    \/ CallPomoForceBreak
    \/ CallPomoForceWork
    \/ OnTickPomo
    \/ CmdSit(OneLine)
    \/ CmdWalkRoundtrip
    \/ OnTickWalk({0})
    \/ OnRestPing(TipLens)
    \/ OnRestPoseBack
    \/ OnDynamicTick
    \/ BubbleHideTimeout

SpecPomo == InitPomo /\ [][NextPomo]_vars

\* C10: after start_pomodoro with work duration W and break duration B, with
\* no force or stop in between (pomo_n counts the ticks since the start, and
\* starts again after W + B), the mode is Work with W - n remaining during the
\* first W - 1 ticks, the W-th tick sets mode = Break, remaining = B and pose
\* LyingDown, and B further ticks return to Work, W and pose Sitting.
C10_PomodoroCycle ==
    pomo_n # None =>
        /\ pomo_running
        /\ pomo_n < pomo_work_sec =>
              /\ pomo_mode = "work"
              /\ pomo_left = pomo_work_sec - pomo_n
        /\ pomo_n >= pomo_work_sec =>
              /\ pomo_mode = "break"
              /\ pomo_left = pomo_work_sec + pomo_break_sec - pomo_n
        /\ (last.op = "tick_pomo" /\ pomo_n = pomo_work_sec) =>
              state = "laydown"
        /\ (last.op = "tick_pomo" /\ pomo_n = 0) => state = "sit"

\* the last tick of a break of 2 seconds after 2 seconds of work
C10_Witness ==
    /\ last.op = "tick_pomo"
    /\ last.state = "laydown"
    /\ pomo_n = 0
    /\ pomo_work_sec = 2
    /\ pomo_break_sec = 2
    /\ pomo_mode = "work"
    /\ pomo_left = 2
    /\ state = "sit"

\* C11: start_pomodoro while the pomodoro is running, and a force break or
\* force work while it is not running, shows a notice and leaves running,
\* mode, secondsRemaining and the pose unchanged.
C11_PomodoroNoOps ==
    [][(\/ (last'.op = "start_pomodoro" /\ pomo_running)
        \/ (last'.op \in {"pomo_force_break", "pomo_force_work"}
            /\ ~pomo_running)) =>
           /\ notes' = (IF pomo_running THEN <<"pomo_already">>
                        ELSE <<"pomo_start_first">>)
           /\ UNCHANGED <<pomo_running, pomo_mode, pomo_left, pomo_timer,
                          state>>]_vars

\* start_pomodoro has just been refused in the middle of a break
C11_Witness ==
    /\ last.op = "start_pomodoro"
    /\ notes = <<"pomo_already">>
    /\ pomo_running
    /\ pomo_mode = "break"
    /\ state = "laydown"

\* C12: a manual roundtrip command that is rejected because the pet is being
\* dragged, is lying down or is already walking shows a notification.
C12_RejectionNotified ==
    [][(/\ last'.op = "start_roundtrip"
        /\ (dragging \/ state = "laydown" \/ Walking)) =>
           notes' # << >>]_vars

(***************************************************************************)
(* Chatter: the callback run with chatter on and off, the window shown and *)
(* hidden, during drags and between them.                                  *)
(***************************************************************************)
InitChatter ==
    InitPet(LowScreen, {1}, {FALSE}, [FlagsOff EXCEPT !.chatter = TRUE])

NextChatter ==
    \/ CmdToggleChatter
    \/ CmdShow
    \/ CmdHide
    \/ CmdLayDown(LayDownLens)
    \/ CallChatterOnce(EncourageLens)
    \/ OnMousePress({"left"})
    \/ OnMouseMove(FarPoints)
    \/ OnMouseRelease({"left"}, {0}, EncourageLens)
    \/ BubbleHideTimeout

SpecChatter == InitChatter /\ [][NextChatter]_vars

\* the pet's fields but the chatter timer
chatterframe == <<state, dragging, locked, moved, press_global, drag_offset,
                  x, y, visible, walk_dir, walk_step_acc, walk_base_y,
                  walk_timer, roundtrip_active, roundtrip_edge_hits_remaining,
                  pomo_running, pomo_mode, pomo_left, pomo_timer,
                  rest_enabled, rest_timer, rest_snooze_timer,
                  rest_pose_back_timer, chatter_enabled,
                  auto_roundtrip_enabled, auto_roundtrip_timer>>

\* C13: a chatter fire with chatter disabled shows no notification and leaves
\* the chatter timer idle; a fire with chatter enabled leaves the timer armed
\* whatever the roll, the visibility and the drag are, and shows the
\* notification exactly when the roll succeeds, the window is visible and no
\* drag is in progress; the fire changes nothing else.
C13_ChatterFire ==
    [][last'.op = "chatter_once" =>
          /\ UNCHANGED chatterframe
          /\ IF chatter_enabled
             THEN /\ chatter_timer'
                  /\ notes' = (IF visible /\ ~dragging /\ last'.arg = 1
                               THEN <<"keep_going">> ELSE << >>)
             ELSE /\ ~chatter_timer'
                  /\ notes' = << >>]_vars

\* chatter has just fired with a lucky roll during a drag: silent, re-armed
C13_Witness ==
    /\ last.op = "chatter_once"
    /\ last.arg = 1
    /\ chatter_enabled
    /\ visible
    /\ dragging
    /\ notes = << >>
    /\ chatter_timer

(***************************************************************************)
(* The bubble on the desk screen: shows, anchor updates, dynamic polls,    *)
(* the auto-hide and the close button.                                     *)
(***************************************************************************)
InitBubble ==
    InitPetSized(DeskScreen, {1}, {FALSE}, {<<PetW, PetH>>}, {FlagsOff},
                 {Settled}, {"text", "fixed"})

NextBubble ==
    \/ BubbleShow(Anchors, MessageLens, {0, 2600}, ButtonRows, DynTexts)
    \/ BubbleUpdateAnchor(Anchors)
    \/ BubbleDynamicTick(DynTexts)
    \/ BubbleHideTimeout
    \/ BubbleCloseButton

SpecBubble == InitBubble /\ [][NextBubble]_vars

(***************************************************************************)
(* Placement: the bubble shown, moved with its anchor, laid out again by   *)
(* the dynamic poll and placed again by set_gap_y, on the desk screen.     *)
(* The shows are the transient notices and the pomodoro's bubble with its  *)
(* buttons, which grows to the height of the screen.                       *)
(***************************************************************************)
InitPlace ==
    InitPetSized(DeskScreen, {1}, {FALSE}, {<<PetW, PetH>>}, {FlagsOff},
                 {Settled}, {"text", "fixed"})

NextPlace ==
    \/ BubbleShow(Anchors, MessageLens, {2600}, {NoButtons}, DynTexts)
    \/ BubbleShow(Anchors, {52}, {0}, {PomoWorkButtons}, DynTexts)
    \/ BubbleUpdateAnchor(Anchors)
    \/ BubbleSetGapY(GapYs)
    \/ BubbleDynamicTick(DynTexts)
    \/ BubbleHideTimeout

SpecPlace == InitPlace /\ [][NextPlace]_vars

\* the centred position of the bubble, before any clamping
CentredX == bubble.anchor[1] - (bubble.w \div 2)
CentredY == bubble.anchor[2] - bubble.h - bubble.gap_y

\* the bubble lies inside the available rectangle, whose right and bottom
\* are its last column and row (QRect.right(), QRect.bottom())
BubbleContained ==
    /\ geo.left <= bubble.x
    /\ bubble.x + bubble.w - 1 <= geo.right
    /\ geo.top <= bubble.y
    /\ bubble.y + bubble.h - 1 <= geo.bottom

\* C14 as stated: for every anchor, on or beyond a screen edge too, and
\* every bubble size up to the available rectangle, the placed bubble lies
\* inside the rectangle on both axes, and a bubble whose centred rectangle
\* lies inside the available rectangle already (no clamping is needed) is
\* centred on the anchor, its bottom the gap above it.
C14_CentredWhenContained ==
    bubble.visible =>
        /\ BubbleContained
        /\ (/\ geo.left <= CentredX
            /\ CentredX + bubble.w - 1 <= geo.right
            /\ geo.top <= CentredY
            /\ CentredY + bubble.h - 1 <= geo.bottom) =>
               /\ bubble.x = CentredX
               /\ bubble.y + bubble.h = bubble.anchor[2] - bubble.gap_y

\* C14, corrected: the placed bubble lies inside the available rectangle on
\* both axes.  On an axis where the centred position is within the range
\* the code clamps to, [left, right - w] and [top, bottom - h], the bubble
\* is centred on the anchor, its bottom the gap above it; a centred bubble
\* that would end on the last column or the last row, inside the rectangle
\* already, is moved one pixel left or up, unless it spans the whole axis.
C14_BubblePlacement ==
    bubble.visible =>
        /\ BubbleContained
        /\ (geo.left <= CentredX /\ CentredX <= geo.right - bubble.w) =>
               bubble.x = CentredX
        /\ (geo.top <= CentredY /\ CentredY <= geo.bottom - bubble.h) =>
               bubble.y + bubble.h = bubble.anchor[2] - bubble.gap_y
        /\ (geo.left < CentredX /\ CentredX = geo.right - bubble.w + 1) =>
               bubble.x = CentredX - 1
        /\ (geo.top < CentredY /\ CentredY = geo.bottom - bubble.h + 1) =>
               bubble.y = CentredY - 1

\* a bubble of the least width whose centred rectangle ends on the last
\* column and the last row of the screen: placed one pixel left of and one
\* pixel above the centred position
C14_Witness ==
    /\ bubble.visible
    /\ bubble.w = BUBBLE_MIN_W
    /\ CentredX + bubble.w - 1 = geo.right
    /\ CentredY + bubble.h - 1 = geo.bottom
    /\ bubble.x = CentredX - 1
    /\ bubble.y = CentredY - 1
    /\ last.op = "show_bubble"

(***************************************************************************)
(* Stride: long walks on the wide screen, more than one full cycle of the  *)
(* step accumulator per leg.                                               *)
(***************************************************************************)
InitStride == InitPet(WideScreen, {1}, {FALSE}, FlagsOff)

NextStride ==
    \/ CmdSit(EncourageLens)
    \/ CmdWalkRoundtrip
    \/ OnTickWalk({0})
    \/ BubbleHideTimeout

SpecStride == InitStride /\ [][NextStride]_vars

\* C15: after walk_n consecutive ticks in one direction (4.95 px per tick,
\* in hundredths) the pixels moved differ from 4.95 * walk_n by less than one
\* pixel, and the accumulator is in [0, 1) after every tick.
C15_NoDrift ==
    /\ 0 <= walk_step_acc
    /\ walk_step_acc < AccUnit
    /\ walk_n # None =>
          Abs(AccUnit * walk_sum - WalkStep * walk_n) < AccUnit

\* twenty ticks into a leg: 99 pixels, the accumulator back at zero
C15_Witness ==
    /\ last.op = "tick_walk"
    /\ walk_n = 20
    /\ walk_sum = 99
    /\ walk_step_acc = 0
    /\ Walking

\* C16: whenever walking stops after a walk that began at vertical position
\* walk_y0, with no drag in between, the window's Y is walk_y0 again.
C16_StopRestoresY ==
    [][(walk_dir # 0 /\ walk_dir' = 0 /\ walk_y0 # None) =>
           y' = walk_y0]_vars

(***************************************************************************)
(* Timers: the three toggles, the snooze, and the fires of the timers they *)
(* start and stop, with roundtrips and drags going on.                     *)
(***************************************************************************)
InitTimers == InitPet(SnugScreen, {1}, {FALSE}, FlagsOn)

NextTimers ==
    \/ CmdToggleChatter
    \/ CmdToggleRestReminder
    \/ CmdToggleAutoRoundtrip
    \/ CmdSnoozeRest
    \/ OnResumeRestAfterSnooze
    \/ OnChatter(OneLine)
    \/ OnRestPing(OneTip)
    \/ OnRestPoseBack
    \/ OnAutoRoundtrip
    \/ OnTickWalk({0})
    \/ OnMousePress({"left"})
    \/ OnMouseRelease({"left"}, {0}, OneLine)
    \/ BubbleHideTimeout
    \/ BubbleCloseButton

SpecTimers == InitTimers /\ [][NextTimers]_vars

\* C17: once a toggle has disabled chatter, the rest reminder or the
\* auto-roundtrip, its timer is stopped and stays stopped while the behaviour
\* is disabled, so none of its fires runs (no notification, no pose change, no
\* roundtrip start); disabling the rest reminder also stops a pending
\* snooze-resume, and a snooze-resume that fires while the reminder is
\* disabled restarts nothing.
C17_DisabledStaysQuiet ==
    /\ [](~chatter_enabled => ~chatter_timer)
    /\ [](~rest_enabled => ~rest_timer)
    /\ [](~auto_roundtrip_enabled => ~auto_roundtrip_timer)
    /\ [][/\ last'.op = "chatter_once" => chatter_enabled
          /\ last'.op = "rest_ping" => rest_enabled
          /\ last'.op = "auto_roundtrip_fire" => auto_roundtrip_enabled
          /\ (last'.op = "toggle_rest_reminder" /\ rest_enabled) =>
                 (~rest_timer' /\ ~rest_snooze_timer')
          /\ (last'.op = "resume_rest_after_snooze" /\ ~rest_enabled) =>
                 (~rest_timer' /\ state' = state /\ notes' = << >>)]_vars

\* a snooze-resume has just fired with the rest reminder disabled
C17_Witness ==
    /\ last.op = "resume_rest_after_snooze"
    /\ ~rest_enabled
    /\ ~rest_timer
    /\ ~rest_snooze_timer

\* C18: snooze_rest(m) with m > 0 stops the periodic rest timer and arms the
\* resume timer, and the periodic timer is never armed while the resume is
\* pending; the resume fire restarts the periodic timer if and only if the
\* rest reminder is enabled then; snooze_rest(m) with m <= 0 changes nothing.
C18_Snooze ==
    /\ [](rest_snooze_timer => ~rest_timer)
    /\ [][/\ last'.op = "rest_ping" => ~rest_snooze_timer
          /\ last'.op = "snooze_rest" =>
                 IF last'.arg > 0
                 THEN ~rest_timer' /\ rest_snooze_timer'
                 ELSE UNCHANGED petvars /\ notes' = << >>
          /\ last'.op = "resume_rest_after_snooze" =>
                 /\ ~rest_snooze_timer'
                 /\ rest_timer' = rest_enabled]_vars

\* the resume has just fired with the reminder enabled: the periodic timer
\* runs again
C18_Witness ==
    /\ last.op = "resume_rest_after_snooze"
    /\ rest_enabled
    /\ rest_timer
    /\ ~rest_snooze_timer

(***************************************************************************)
(* The roundtrip counter among the other behaviours, on the snug screen    *)
(* (two ticks from edge to edge): the Lay Down command, roundtrips, rest   *)
(* reminders, the pomodoro, presses and releases, chatter and its toggle,  *)
(* the fires of the bubble's timers (the Sit command is among Spec's       *)
(* callbacks, the rest and auto-roundtrip toggles among SpecTimers').      *)
(***************************************************************************)
InitHits ==
    InitPet(SnugScreen, {1}, {FALSE}, FlagsOn)

NextHits ==
    \/ CmdLayDown(OneLayDown)
    \/ CmdWalkRoundtrip
    \/ CmdStartPomodoro
    \/ CmdToggleChatter
    \/ OnTickPomo
    \/ OnRestPing(OneTip)
    \/ OnRestPoseBack
    \/ OnChatter(OneLine)
    \/ OnAutoRoundtrip
    \/ OnTickWalk({0})
    \/ OnMousePress({"left"})
    \/ OnMouseRelease({"left"}, {0}, OneLine)
    \/ OnDynamicTick
    \/ BubbleHideTimeout

SpecHits == InitHits /\ [][NextHits]_vars

\* C19: edgeHitsRemaining changes only in these ways: start_roundtrip (by the
\* command or the auto-roundtrip fire) sets it to 2 when it starts a
\* roundtrip; a walk tick, outside a drag, that touches an edge while the
\* roundtrip is active takes exactly 1 off, which ends the roundtrip when 0
\* is reached; a rest reminder resets it to 0.  Every other callback (pose
\* commands, pomodoro operations, drag events, chatter, toggles, walk ticks
\* without edge contact) leaves it unchanged.
C19_EdgeHitsFrame ==
    [][roundtrip_edge_hits_remaining' # roundtrip_edge_hits_remaining =>
          \/ /\ last'.op \in {"start_roundtrip", "auto_roundtrip_fire"}
             /\ ~roundtrip_active \/ ~Walking
             /\ roundtrip_active'
             /\ Walking'
             /\ roundtrip_edge_hits_remaining' = 2
          \/ /\ last'.op = "tick_walk"
             /\ roundtrip_active
             /\ ~dragging
             /\ AtEdgeX(x')
             /\ roundtrip_edge_hits_remaining' =
                    roundtrip_edge_hits_remaining - 1
             /\ roundtrip_edge_hits_remaining' = 0 => ~roundtrip_active'
          \/ /\ last'.op = "rest_ping"
             /\ ~roundtrip_active'
             /\ roundtrip_edge_hits_remaining' = 0]_vars

\* a tick between the edges has just left the counter of the first leg alone
C19_Witness ==
    /\ last.op = "tick_walk"
    /\ last.active
    /\ last.hits = 2
    /\ Walking
    /\ ~AtEdgeX(x)
    /\ walk_n = 1
    /\ roundtrip_edge_hits_remaining = 2

\* C20: a walk tick that fires while a drag is in progress changes nothing:
\* window position, step accumulator, walk direction, pose, roundtrip flag
\* and edgeHitsRemaining (and every other field) are unchanged and nothing is
\* shown, so a drag during a roundtrip counts no edge hit until its release.
C20_TickDuringDrag ==
    [][(last'.op = "tick_walk" /\ dragging) =>
           (UNCHANGED petvars /\ notes' = << >>)]_vars

\* a tick has just fired while the walking pet is held left of the screen,
\* in the first leg of its roundtrip
C20_Witness ==
    /\ last.op = "tick_walk"
    /\ dragging
    /\ Walking
    /\ roundtrip_active
    /\ roundtrip_edge_hits_remaining = 2
    /\ x < geo.left

(***************************************************************************)
(* Drop: drags on the roomy screen, where the two snap zones of an axis    *)
(* are apart, released at positions before, on, within the margin of and   *)
(* beyond every edge.                                                      *)
(***************************************************************************)
InitDrop == InitPet(RoomyScreen, {1}, {FALSE}, FlagsOff)

NextDrop ==
    \/ OnMousePress({"left"})
    \/ OnMouseMove(DropPoints)
    \/ OnMouseRelease({"left"}, {ClickMs}, OneLine)

SpecDrop == InitDrop /\ [][NextDrop]_vars

\* C21: a left release that ends a drag, wherever the drag left the window,
\* leaves the window inside the available rectangle on both axes, on the edge
\* on each axis where the window was within the snap margin of that edge, and
\* dragging false.
C21_ReleaseClampsAndSnaps ==
    [][(last'.op = "mouse_release" /\ last'.arg >= 0 /\ dragging) =>
          /\ ~dragging'
          /\ InRect(x', y')
          /\ Abs(x - geo.left) <= snap_margin => x' = geo.left
          /\ Abs((x + width) - geo.right) <= snap_margin =>
                 x' = geo.right - width
          /\ Abs(y - geo.top) <= snap_margin => y' = geo.top
          /\ Abs((y + height) - geo.bottom) <= snap_margin =>
                 y' = geo.bottom - height]_vars

\* a drag has just been released into the bottom left corner, where only
\* the clamp and the snap put the window
C21_Witness ==
    /\ last.op = "mouse_release"
    /\ last.arg >= 0
    /\ moved
    /\ ~dragging
    /\ x = geo.left
    /\ y = geo.bottom - height

\* C24: a left press on the locked pet leaves dragging false, a drag begins
\* only with a left press on the unlocked pet, and a pointer move outside a
\* drag leaves the window where it is, so the moves after a locked press do
\* not move the window; a right press or release, locked or not, leaves the
\* dragging flag, the moved flag and the window position unchanged.
C24_LockedAndRightButton ==
    [][/\ (last'.op = "mouse_press" /\ last'.arg = 1 /\ locked) => ~dragging'
       /\ (~dragging /\ dragging') =>
              (last'.op = "mouse_press" /\ last'.arg = 1 /\ ~locked)
       /\ (last'.op = "mouse_move" /\ ~dragging) => UNCHANGED <<x, y>>
       /\ ((last'.op = "mouse_press" /\ last'.arg = 2)
           \/ (last'.op = "mouse_release" /\ last'.arg = -1)) =>
              UNCHANGED <<dragging, moved, x, y>>]_vars

\* the pointer has just moved far with the left button held on the locked
\* pet: no drag, the window has not followed
C24_Witness ==
    /\ last.op = "mouse_move"
    /\ locked
    /\ left_down
    /\ far_move
    /\ ~dragging
    /\ ~moved
    /\ x = 7

\* C25: in every reachable state where the pose is WalkingLeft or
\* WalkingRight, the roundtrip is active and edgeHitsRemaining is 1 or 2.
C25_WalkingInsideRoundtrip ==
    Walking =>
        /\ roundtrip_active
        /\ roundtrip_edge_hits_remaining \in {1, 2}

\* a drag in the second leg of a roundtrip has just been released: the pet
\* walks on, one edge to go
C25_Witness ==
    /\ last.op = "mouse_release"
    /\ last.state = "walk_left"
    /\ state = "walk_left"
    /\ ~dragging
    /\ roundtrip_active
    /\ roundtrip_edge_hits_remaining = 1
    /\ walk_timer

\* C26: after every callback the walking kinematics agree with the pose: the
\* walk direction is -1 exactly in WalkingLeft, +1 exactly in WalkingRight and
\* 0 otherwise, the walk tick timer is armed exactly in a walking pose, and
\* the baseline Y is set exactly in a walking pose.
C26_KinematicsFollowPose ==
    /\ walk_dir = (IF state = "walk_left" THEN -1
                   ELSE IF state = "walk_right" THEN 1 ELSE 0)
    /\ walk_timer <=> Walking
    /\ (walk_base_y # None) <=> Walking

\* the tick at the first edge has just turned the pet round
C26_Witness ==
    /\ last.op = "tick_walk"
    /\ last.state = "walk_right"
    /\ state = "walk_left"
    /\ walk_dir = -1
    /\ walk_timer
    /\ walk_base_y # None
    /\ roundtrip_edge_hits_remaining = 1

\* C28: the fire of the post-rest auto-return timer leaves the pose and the
\* walk alone when the pet is no longer lying down from the reminder: when
\* it is walking a roundtrip started since, or when the pomodoro is in Break.
C28_PoseBackOnlyFromRest ==
    [][(/\ last'.op = "rest_pose_back"
        /\ (Walking \/ (pomo_running /\ pomo_mode = "break"))) =>
           UNCHANGED <<state, walk_dir, walk_timer>>]_vars

\* C29: the periodic rest timer and the single-shot snooze-resume timer are
\* never both armed, and the periodic rest timer is armed only while the rest
\* reminder is enabled.
C29_RestTimersExclusive ==
    /\ ~(rest_timer /\ rest_snooze_timer)
    /\ rest_timer => rest_enabled

\* a snooze has just been taken with the rest reminder disabled: only the
\* resume timer is armed
C29_Witness ==
    /\ last.op = "snooze_rest"
    /\ last.arg > 0
    /\ ~rest_enabled
    /\ rest_snooze_timer
    /\ ~rest_timer

\* C23: a poll of the dynamic source that fails leaves the dynamic line with
\* the text it showed (the text of the last poll that succeeded), the bubble
\* visible and the refresh timer armed, so that later polls run; it changes
\* nothing else of the bubble.
C23_PollFailureKeepsText ==
    [][(last'.op = "dynamic_tick" /\ last'.arg = 0) =>
          /\ bubble'.text = bubble.text
          /\ bubble'.visible
          /\ bubble'.dynamic_timer
          /\ bubble'.getter
          /\ bubble' = bubble]_vars

\* a poll has just failed on the bubble of a transient show: the text of the
\* show is still there, both timers are armed
C23_Witness ==
    /\ last.op = "dynamic_tick"
    /\ last.arg = 0
    /\ bubble.visible
    /\ bubble.text = "b"
    /\ bubble.dynamic_timer
    /\ bubble.hide_timer

(***************************************************************************)
(* The bubble's shows among the ways it is hidden: the auto-hide, the      *)
(* close button and the Hide command.                                      *)
(***************************************************************************)
InitShows ==
    InitPetSized(DeskScreen, {1}, {FALSE}, {<<PetW, PetH>>}, {FlagsOff},
                 {Settled}, {"text", "fixed"})

NextShows ==
    \/ BubbleShow({<<GeoLeft, GeoTop>>}, {16}, ShowMs, ButtonRows, {"a", "b"})
    \/ BubbleDynamicTick({"a", "b"})
    \/ BubbleHideTimeout
    \/ BubbleCloseButton
    \/ CmdHide

SpecShows == InitShows /\ [][NextShows]_vars

\* C22: a show leaves the auto-hide timer armed exactly when its ms > 0, and
\* an armed timer was started by the most recent show with that show's ms; so
\* no auto-hide fires on a bubble shown with ms = 0, which stays visible until
\* it is closed (or hidden with the pet by the Hide command) or shown again.
C22_HideTimerFollowsLastShow ==
    /\ [](bubble.hide_timer =>
              (bubble.shown_ms > 0 /\ bubble.hide_ms = bubble.shown_ms))
    /\ [][/\ last'.op = "show_bubble" =>
                 /\ bubble'.visible
                 /\ bubble'.shown_ms = last'.arg
                 /\ bubble'.hide_timer <=> (last'.arg > 0)
          /\ last'.op = "hide_timeout" => bubble.shown_ms > 0
          /\ (bubble.visible /\ bubble.shown_ms = 0 /\ ~bubble'.visible) =>
                 last'.op \in {"close_button", "hide_all"}]_vars

\* a persistent bubble has just replaced a transient one whose auto-hide was
\* still pending
C22_Witness ==
    /\ last.op = "show_bubble"
    /\ last.arg = 0
    /\ bubble.visible
    /\ bubble.hide_ms = 2600
    /\ ~bubble.hide_timer

(***************************************************************************)
(* Progress of the walk, from the start of the program.  The walk timer is *)
(* a repeating QTimer: while it is armed its tick keeps firing, between    *)
(* the drags too (a tick during a drag returns at once); the user releases *)
(* every drag, and may drag and resize at any time.  The resizes are those *)
(* of the Size menu between Small and Normal, on a pet of width LivePetW:  *)
(* the small pet has more room on the snug screen than one tick covers, so *)
(* that _apply_scale's _ensure_on_screen, which pulls the enlarged window  *)
(* back onto the screen, can undo a tick.  The wheel resizes through the   *)
(* same _apply_scale, by a tenth per step (SpecWheel).                     *)
(***************************************************************************)
InitLive ==
    InitPetSized(SnugScreen, {1}, {FALSE}, {<<LivePetW, PetH>>}, {FlagsOff},
                 {Settled}, {"fixed"})

NextLive ==
    \/ CmdWalkRoundtrip
    \/ CmdSetScale(LiveScalePcts)
    \/ OnTickWalk({0})
    \/ OnMousePress({"left"})
    \/ OnMouseMove(FarPoints)
    \/ OnMouseRelease({"left"}, {ClickMs}, OneLine)
    \/ BubbleHideTimeout

SpecLive ==
    /\ InitLive
    /\ [][NextLive]_vars
    /\ SF_vars(~dragging /\ OnTickWalk({0}))
    /\ WF_vars(OnMouseRelease({"left"}, {ClickMs}, OneLine))

\* a callback that resizes the window: the Size menu, the wheel
Resized == last.op \in {"set_scale", "wheel"}

\* C27 as claimed: with walk ticks that keep firing (outside the drags too)
\* and every drag released, a walking pose always leads to the pose Sitting
\* or LyingDown.
C27_WalkEnds == Walking ~> (state \in {"sit", "laydown"})

\* C27 as amended: if moreover the drags and the resizes come to an end (from
\* some point on no drag is in progress and no callback resizes the window),
\* a walking pose always leads to the pose Sitting or LyingDown.
C27_WalkEndsUndisturbed ==
    (<>[](~dragging) /\ <>[][~Resized']_vars) =>
        (Walking ~> (state \in {"sit", "laydown"}))

\* the end of the drags alone is not enough: Small, tick, Normal, Small,
\* tick, ... keeps the pet walking right for ever, with no drag at all
WalkEndsAfterDrags ==
    <>[](~dragging) => (Walking ~> (state \in {"sit", "laydown"}))

\* the tick at the second edge has just ended a roundtrip that was dragged on
\* its way
C27_Witness ==
    /\ last.op = "tick_walk"
    /\ last.state = "walk_left"
    /\ last.hits = 1
    /\ moved
    /\ ~dragging
    /\ state = "sit"
    /\ ~roundtrip_active
    /\ ~walk_timer

(***************************************************************************)
(* Flags and their timers: the chatter and auto-roundtrip toggles and the  *)
(* pomodoro commands among the fires of the three timers, the window shown *)
(* and hidden, the bubble closed by its auto-hide and by its close button. *)
(***************************************************************************)
InitFlags ==
    InitPet(LowScreen, {1}, {FALSE}, [FlagsOn EXCEPT !.rest = FALSE])

NextFlags ==
    \/ CmdToggleChatter
    \/ CmdToggleAutoRoundtrip
    \/ CmdStartPomodoro
    \/ CmdStopPomodoro
    \/ CmdPomoForceBreak
    \/ CmdPomoForceWork
    \/ OnTickPomo
    \/ OnChatter(EncourageLens)
    \/ OnAutoRoundtrip
    \/ OnTickWalk({0})
    \/ CmdHide
    \/ CmdShow
    \/ OnDynamicTick
    \/ BubbleHideTimeout
    \/ BubbleCloseButton

SpecFlags == InitFlags /\ [][NextFlags]_vars

\* C30: after every callback the chatter timer is armed iff chatter is
\* enabled, the auto-roundtrip timer iff auto-roundtrip is enabled, and the
\* pomodoro's 1-second tick iff the pomodoro is running.
C30_TimersFollowFlags ==
    /\ chatter_timer <=> chatter_enabled
    /\ auto_roundtrip_timer <=> auto_roundtrip_enabled
    /\ pomo_timer <=> pomo_running

\* chatter has just fired and re-armed itself, with auto-roundtrip off and
\* the pomodoro in its break
C30_Witness ==
    /\ last.op = "chatter_once"
    /\ chatter_enabled
    /\ chatter_timer
    /\ ~auto_roundtrip_enabled
    /\ ~auto_roundtrip_timer
    /\ pomo_running
    /\ pomo_mode = "break"
    /\ pomo_timer

(***************************************************************************)
(* The hidden bubble's timers, under SpecShows.                            *)
(***************************************************************************)
\* C31: whenever the bubble is not visible, neither its auto-hide timer nor
\* its dynamic-refresh timer is armed, whichever way it became hidden (the
\* auto-hide timeout, the close button, or the Hide command).
C31_HiddenBubbleTimersIdle ==
    ~bubble.visible => (~bubble.hide_timer /\ ~bubble.dynamic_timer)

\* the part of C31 that _do_close gives: the auto-hide timeout and the close
\* button leave the bubble hidden with both timers idle
C31_CloseStopsBothTimers ==
    [][last'.op \in {"hide_timeout", "close_button"} =>
           (~bubble'.visible /\ ~bubble'.hide_timer
                /\ ~bubble'.dynamic_timer)]_vars

\* the Hide command has hidden a bubble whose two timers were armed, and
\* they still are
C31_HideLeavesTimersArmed ==
    /\ last.op = "hide_all"
    /\ ~bubble.visible
    /\ bubble.hide_timer
    /\ bubble.dynamic_timer

(***************************************************************************)
(* Size / scale, from the construction on: the two single-shots of         *)
(* __init__ and the Size menu, with and without a base size, among         *)
(* notifications of two lengths and their auto-hide.                       *)
(***************************************************************************)
InitScale ==
    InitPetSized(TallScreen, {1}, {FALSE}, {NoSize, <<PetW, PetH>>},
                 {FlagsOff}, {Pending}, {"text", "fixed"})

NextScale ==
    \/ OnStartupEnsureOnScreen
    \/ OnSayHello
    \/ CmdSetScale(ScalePcts)
    \/ CmdLayDown(LayDownLens)
    \/ CmdMotivate(OneLine)
    \/ BubbleHideTimeout

SpecScale == InitScale /\ [][NextScale]_vars

\* with a base size the window has the scaled size, the scale is within
\* [0.3, 2.0] and the window is on the screen where it fits; without one the
\* window keeps its size
ScaleKeepsSize ==
    IF uniform_base_size = NoSize
    THEN width = QtDefaultW /\ height = QtDefaultH
    ELSE /\ width = Scaled(uniform_base_size[1], scale)
         /\ height = Scaled(uniform_base_size[2], scale)
         /\ ClampScale(scale) = scale
         /\ x <= Max(geo.left, geo.right - width)
         /\ y <= Max(geo.top, geo.bottom - height)

\* the bubble's anchor is the middle of the window's top edge after every
\* callback of the pet
AnchorFollowsHead == bubble.anchor = <<x + (width \div 2), y>>

(***************************************************************************)
(* The wheel and the Size menu, on a pet that stays where it is: the       *)
(* position stored leaves room for the largest size.  The floats the wheel *)
(* reaches from the menu's four scales are many, since a step up and a     *)
(* step down seldom cancel; with a base width of WheelPetW the size at one *)
(* and the same tenth depends on the float that was reached.               *)
(***************************************************************************)
InitWheel ==
    /\ InitPetSized(RoomyScreen, {1}, {FALSE}, {NoSize, <<WheelPetW, PetH>>},
                    {FlagsOff}, {Settled}, {"fixed"})
    /\ uniform_base_size # NoSize => x = GeoLeft + 5

NextWheel ==
    \/ CmdSetScale(ScalePcts)
    \/ OnWheel

SpecWheel == InitWheel /\ [][NextWheel]_vars

\* the wheel never leaves [0.3, 2.0] nor moves the pet that has room
WheelKeepsPlace ==
    /\ ~DblLess(scale, ScaleMin)
    /\ ~DblLess(ScaleMax, scale)
    /\ uniform_base_size # NoSize => x = GeoLeft + 5

====
